---- MODULE Spec2Model ----
(***************************************************************************)
(* A model of the reconciliation engine bundled in src/unnamed/part_000:   *)
(* the component instances, the render queue (enqueueRender / process),   *)
(* renderComponent, the component branch of diff, commitRoot, unmount and *)
(* the error walk _catchError.                                             *)
(*                                                                         *)
(* The host tree and host-tag vnodes are left out here: a component's     *)
(* children are its child component instances, one per child slot of a    *)
(* fixed slot tree (key and type of a child are its slot).                *)
(***************************************************************************)
EXTENDS Integers, Sequences, FiniteSets, TLC

\* ------------------------------------------------------------------ bounds
NumSlots == 2        \* positions of the component tree: a chain, slot 1 the root
NumInst == 3         \* component instances that can ever be constructed
MaxVal == 1          \* state values are 0..MaxVal
MaxRequests == 3     \* setState / forceUpdate / debounce changes made by user code
MaxEvents == 3       \* requests made plus exceptions thrown by user code
MaxThrows == 1       \* exceptions thrown by user code

Slots == 1..NumSlots
Insts == 1..NumInst
Vals == 0..MaxVal
Keys == {"a", "b"}
StateT == [Keys -> Vals]

SlotParent(s) == s - 1
ChildSlots(s) == {t \in Slots : SlotParent(t) = s}

RECURSIVE Depth(_)
\* vnode._depth of the component vnode in slot s (diffChildren: parent depth + 1)
Depth(s) == IF s = 0 THEN 0 ELSE Depth(SlotParent(s)) + 1

\* ---------------------------------------------------- component classes
\* Which lifecycle methods the class mounted in a slot declares.
HasGDSFP(s) == s \in {1, 3}          \* static getDerivedStateFromProps
HasCWRP(s) == s = 2                  \* componentWillReceiveProps
HasSCU(s) == s \in {1, 2}            \* shouldComponentUpdate
HasCWU(s) == s \in {1, 2}            \* componentWillUpdate
HasDidMount(s) == s = 2              \* componentDidMount
HasDidUpdate(s) == s \in {1, 2}      \* componentDidUpdate
HasCWUnmount(s) == s \in {2, 3}      \* componentWillUnmount
HasGDSFE(s) == s \in {1, 4}                 \* static getDerivedStateFromError
HasDidCatch(s) == s \in {2, 4}              \* componentDidCatch

\* ------------------------------------------------------------- instances
EmptyPart == [k \in {} |-> 0]
InitState == [k \in Keys |-> 0]

\* A Component object that is not constructed yet (slot = 0).
NoInst ==
  [slot |-> 0, parent |-> 0, hasVnode |-> FALSE, parentDom |-> FALSE,
   attached |-> FALSE, detached |-> FALSE, vnodeNull |-> FALSE,
   props |-> 0, tprops |-> -1, state |-> InitState, nextState |-> InitState, staged |-> FALSE,
   dirty |-> FALSE, force |-> FALSE,
   pendingError |-> FALSE, processingException |-> FALSE,
   cbs |-> <<>>,
   stampOk |-> FALSE, elemNulled |-> FALSE, vIsElem |-> FALSE]

\* assign(obj, props): copy every property of props onto obj
assign(obj, part) == [k \in Keys |-> IF k \in DOMAIN part THEN part[k] ELSE obj[k]]

\* The updates user code passes to setState: two partial objects, the empty
\* object, and three updater functions of (staged state, props).
Updates == {"setA", "setB", "empty", "incA", "copyAB", "fnNull"}
\* the setState calls user code makes here: <<update, with a callback>>
UserCalls == {<<"setA", TRUE>>, <<"incA", FALSE>>, <<"copyAB", FALSE>>, <<"fnNull", TRUE>>}
IsFunction(u) == u \in {"incA", "copyAB", "fnNull"}

\* an updater whose null result is taken for the empty object
UpdateResultObject(u, s, p) ==
  CASE u = "setA" -> [nul |-> FALSE, part |-> [k \in {"a"} |-> MaxVal]]
    [] u = "setB" -> [nul |-> FALSE, part |-> [k \in {"b"} |-> MaxVal]]
    [] u = "incA" -> [nul |-> FALSE, part |-> [k \in {"a"} |-> (s["a"] + 1) % (MaxVal + 1)]]
    [] u = "copyAB" -> [nul |-> FALSE, part |-> [k \in {"b"} |-> s["a"]]]
    [] OTHER -> [nul |-> FALSE, part |-> EmptyPart]

\* The value `update` holds after setState's lines 202-204.
UpdateResult(u, s, p) ==
  CASE u = "setA" -> [nul |-> FALSE, part |-> [k \in {"a"} |-> MaxVal]]
    [] u = "setB" -> [nul |-> FALSE, part |-> [k \in {"b"} |-> MaxVal]]
    [] u = "empty" -> [nul |-> FALSE, part |-> EmptyPart]
    [] u = "incA" -> [nul |-> FALSE, part |-> [k \in {"a"} |-> (s["a"] + 1) % (MaxVal + 1)]]
    [] u = "copyAB" -> [nul |-> FALSE, part |-> [k \in {"b"} |-> s["a"]]]
    [] OTHER -> [nul |-> TRUE, part |-> EmptyPart]

\* ------------------------------------------------------------- scheduler
\* G is the mutable heap the scheduler functions work on:
\* [inst, rerenderQueue, rerenderCount, prevDebounce, debounceRendering, scheduled]

\* an enqueueRender that does not look at c._dirty
enqueueRenderAgain(G, c) ==
  LET G1 == [G EXCEPT !.inst[c].dirty = TRUE,
                      !.rerenderQueue = Append(@, c),
                      !.rerenderCount = @ + 1]
  IN IF G.rerenderCount = 0 \/ G.prevDebounce # G.debounceRendering
     THEN [G1 EXCEPT !.prevDebounce = G.debounceRendering, !.scheduled = @ + 1]
     ELSE G1

\* an enqueueRender that schedules a flush for every instance it appends
enqueueRenderEager(G, c) ==
  IF G.inst[c].dirty THEN G
  ELSE [G EXCEPT !.inst[c].dirty = TRUE,
                 !.rerenderQueue = Append(@, c),
                 !.rerenderCount = @ + 1,
                 !.prevDebounce = G.debounceRendering,
                 !.scheduled = @ + 1]

\* enqueueRender, lines 362-373
enqueueRender(G, c) ==
  LET marked == ~G.inst[c].dirty
      first == marked /\ G.rerenderCount = 0
      G1 == IF marked
            THEN [G EXCEPT !.inst[c].dirty = TRUE,
                           !.rerenderQueue = Append(@, c),
                           !.rerenderCount = @ + 1]
            ELSE G
  IN IF first \/ G.prevDebounce # G.debounceRendering
     THEN [G1 EXCEPT !.prevDebounce = G.debounceRendering,
                     !.scheduled = @ + 1]
     ELSE G1

\* a setState that makes no copy of this.state: while nothing is staged the
\* update is written into the object that is the current state
setStateInPlace(G, c, u, cb) ==
  LET I == G.inst[c]
      r == UpdateResult(u, I.nextState, I.props)
      s1 == IF r.nul THEN I.nextState ELSE assign(I.nextState, r.part)
      G1 == [G EXCEPT !.inst[c].nextState = s1,
                      !.inst[c].state = IF I.staged THEN @ ELSE s1]
  IN IF r.nul \/ ~I.hasVnode THEN G1
     ELSE enqueueRender([G1 EXCEPT !.inst[c].cbs = IF cb THEN Append(@, "cb") ELSE @], c)

\* a setState that merges into the current state instead of the staged one
setStateOnCurrent(G, c, u, cb) ==
  LET I == G.inst[c]
      r == UpdateResult(u, I.state, I.props)
      G1 == [G EXCEPT !.inst[c].nextState = IF r.nul THEN @ ELSE assign(I.state, r.part),
                      !.inst[c].staged = TRUE]
  IN IF r.nul \/ ~I.hasVnode THEN G1
     ELSE enqueueRender([G1 EXCEPT !.inst[c].cbs = IF cb THEN Append(@, "cb") ELSE @], c)

\* a setState that applies the update to this.state before it returns
setStateSync(G, c, u, cb) ==
  LET I == G.inst[c]
      r == UpdateResult(u, I.nextState, I.props)
      s1 == IF r.nul THEN I.nextState ELSE assign(I.nextState, r.part)
      G1 == [G EXCEPT !.inst[c].nextState = s1, !.inst[c].state = s1,
                      !.inst[c].staged = TRUE]
  IN IF r.nul \/ ~I.hasVnode THEN G1
     ELSE enqueueRender([G1 EXCEPT !.inst[c].cbs = IF cb THEN Append(@, "cb") ELSE @], c)

\* a setState that keeps the callback of an update that is null
setStateKeepsCallback(G, c, u, cb) ==
  LET I == G.inst[c]
      r == UpdateResult(u, I.nextState, I.props)
      s1 == IF r.nul THEN I.nextState ELSE assign(I.nextState, r.part)
      G1 == [G EXCEPT !.inst[c].nextState = s1, !.inst[c].staged = TRUE,
                      !.inst[c].cbs = IF cb /\ I.hasVnode THEN Append(@, "cb") ELSE @]
  IN IF r.nul \/ ~I.hasVnode THEN G1 ELSE enqueueRender(G1, c)

\* Component.prototype.setState, lines 193-217
setState(G, c, u, cb) ==
  LET I == G.inst[c]
      r == UpdateResult(u, I.nextState, I.props)
      s1 == IF r.nul THEN I.nextState ELSE assign(I.nextState, r.part)
      G1 == [G EXCEPT !.inst[c].nextState = s1, !.inst[c].staged = TRUE]
  IN IF r.nul THEN G1
     ELSE IF I.hasVnode
          THEN enqueueRender(
                 [G1 EXCEPT !.inst[c].cbs = IF cb THEN Append(@, "cb") ELSE @], c)
          ELSE G1

\* a forceUpdate without the test of this._vnode
forceUpdateAlways(G, c, cb) ==
  enqueueRender(
    [G EXCEPT !.inst[c].force = TRUE,
              !.inst[c].cbs = IF cb THEN Append(@, "cb") ELSE @], c)

\* Component.prototype.forceUpdate, lines 224-233
forceUpdate(G, c, cb) ==
  IF G.inst[c].hasVnode
  THEN enqueueRender(
         [G EXCEPT !.inst[c].force = TRUE,
                   !.inst[c].cbs = IF cb THEN Append(@, "cb") ELSE @], c)
  ELSE G

RECURSIVE InsertByDepth(_, _, _)
\* insert c into the depth-sorted sequence q behind every entry of depth <= its own
InsertByDepth(I, q, c) ==
  IF q = <<>> THEN <<c>>
  ELSE IF Depth(I[Head(q)].slot) <= Depth(I[c].slot)
       THEN <<Head(q)>> \o InsertByDepth(I, Tail(q), c)
       ELSE <<c>> \o q

\* the queue taken as it is
Unsorted(I, q) == q

RECURSIVE SortByDepth(_, _)
\* rerenderQueue.sort((a, b) => a._vnode._depth - b._vnode._depth), a stable sort
SortByDepth(I, q) ==
  IF q = <<>> THEN <<>>
  ELSE InsertByDepth(I, SortByDepth(I, SubSeq(q, 1, Len(q) - 1)), q[Len(q)])

\* ------------------------------------------------------------------ state
VARIABLES
  inst,               \* the Component objects, by instance id
  rerenderQueue,      \* let rerenderQueue = []
  rerenderCount,      \* let rerenderCount = 0
  prevDebounce,       \* let prevDebounce
  debounceRendering,  \* options.debounceRendering ("default" is undefined: defer)
  scheduled,          \* process callbacks handed to defer / the debounce, not yet run
  ctx,                \* who runs the diff: "idle", "render" (first mount) or "process"
  pc,                 \* position: "idle", "loop", "some", "diff", "commit"
  queue,              \* process: the sorted snapshot `queue`
  qi,                 \* process: the next index queue.some visits
  stack,              \* the pending work of the running diff, innermost first
  commitQueue,        \* the commitQueue of the running diff
  exc,                \* an exception is propagating out of the frames of stack
  reqs,               \* requests made by user code so far
  throws,             \* exceptions thrown by user code so far
  last,               \* what the last step did: hooks invoked, instance, updates merged
  pend,               \* per instance: the updates staged since its state last advanced
  passNo,             \* the number of the running pass within its process call
  passRenders,        \* per instance: render() calls since the last snapshot
  passMarks,          \* per instance: times enqueueRender marked it dirty since then
  passSeq,            \* the instances process itself rendered since the last snapshot
  strategyChanged,    \* user code has assigned options.debounceRendering
  dc,                 \* the diffChildren of a host parent with keyed host children
  hk,                 \* the hooks runtime: currentComponent, currentIndex, the __hooks stores
  um,                 \* an unmount(vnode) of a subtree of host and component vnodes
  mc                  \* the matching of new children to old children in diffChildren

schedVars == <<rerenderQueue, rerenderCount, prevDebounce, debounceRendering, scheduled>>
flushVars == <<ctx, pc, queue, qi, stack, commitQueue, exc>>
passVars == <<passNo, passRenders, passMarks, passSeq>>
engineVars == <<inst, schedVars, flushVars, reqs, throws, last, pend, passVars, strategyChanged>>
sideVars == <<dc, hk, um, mc>>
vars == <<engineVars, sideVars>>

Cur ==
  [inst |-> inst, rerenderQueue |-> rerenderQueue, rerenderCount |-> rerenderCount,
   prevDebounce |-> prevDebounce, debounceRendering |-> debounceRendering,
   scheduled |-> scheduled]

\* the instances a step appended to the render queue
Marked(G) == {G.rerenderQueue[k] : k \in (Len(rerenderQueue) + 1)..Len(G.rerenderQueue)}

\* the heap after a step is G; passMarks counts the instances the step marked dirty
SetHeap(G) ==
  /\ inst' = G.inst
  /\ rerenderQueue' = G.rerenderQueue
  /\ rerenderCount' = G.rerenderCount
  /\ prevDebounce' = G.prevDebounce
  /\ scheduled' = G.scheduled
  /\ passMarks' = [i \in Insts |->
       IF ctx = "process" /\ i \in Marked(G) THEN passMarks[i] + 1 ELSE passMarks[i]]

Frame(op, i, slot, kind, fresh, p, cpe) ==
  [op |-> op, i |-> i, slot |-> slot, kind |-> kind, fresh |-> fresh, p |-> p, cpe |-> cpe]

\* what a step did, for the properties that speak about one step
Did(h, c, n) == [hooks |-> h, c |-> c, merged |-> n]
Quiet == Did(<<>>, 0, 0)
Entry(u, p) == [u |-> u, p |-> p]

Constructed(I, i) == I[i].slot # 0
\* mounted: rendered at least once and not unmounted since
Mounted(I, i) == I[i].hasVnode /\ I[i].parentDom

\* no diffChildren of a keyed host list is under way
NoDiffChildren ==
  [pc |-> "off", old |-> <<>>, oldChildren |-> <<>>, newChildren |-> <<>>, i |-> 1,
   oldDom |-> 0, dom |-> <<>>, ops |-> <<>>, reused |-> {}, elementDiffs |-> {}]

\* The state when the first render(vnode, parentDom) starts to diff the root.
Init ==
  /\ inst = [i \in Insts |-> NoInst]
  /\ rerenderQueue = <<>>
  /\ rerenderCount = 0
  /\ prevDebounce = "default"
  /\ debounceRendering = "default"
  /\ scheduled = 0
  /\ ctx = "render"
  /\ pc = "diff"
  /\ queue = <<>>
  /\ qi = 1
  /\ stack = <<Frame("diff", 1, 1, "new", TRUE, 0, FALSE)>>
  /\ commitQueue = <<>>
  /\ exc = FALSE
  /\ reqs = 0
  /\ throws = 0
  /\ last = Quiet
  /\ pend = [i \in Insts |-> <<>>]
  /\ passNo = 0
  /\ passRenders = [i \in Insts |-> 0]
  /\ passMarks = [i \in Insts |-> 0]
  /\ passSeq = <<>>
  /\ strategyChanged = FALSE
  /\ dc = NoDiffChildren
  /\ hk = [pc |-> "off"] /\ um = [pc |-> "off"] /\ mc = [pc |-> "off"]

\* ----------------------------------------------------------- user requests
\* User code runs between the steps of a diff and of a commit (render, the
\* lifecycle methods, the render callbacks) and while the engine is idle.
UserCodeRuns == pc \in {"idle", "diff", "commit"} /\ ~exc

\* user code holds a reference to i and i's methods can be called: the class
\* with getDerivedStateFromProps has no componentWillMount to call them from
CanCall(i) ==
  /\ Constructed(inst, i)
  /\ ~(stack # <<>> /\ stack[1].op = "mount" /\ stack[1].i = i /\ HasGDSFP(stack[1].slot))

SetState(i, u, cb) ==
  /\ UNCHANGED sideVars
  /\ UserCodeRuns
  /\ reqs < MaxRequests /\ reqs + throws < MaxEvents
  /\ CanCall(i)
  /\ SetHeap(setState(Cur, i, u, cb))
  /\ reqs' = reqs + 1
  /\ last' = Quiet
  /\ pend' = [pend EXCEPT ![i] = Append(@, Entry(u, 0))]
  /\ UNCHANGED <<debounceRendering, flushVars, throws, passNo, passRenders, passSeq,
                 strategyChanged>>

ForceUpdate(i, cb) ==
  /\ UNCHANGED sideVars
  /\ UserCodeRuns
  /\ reqs < MaxRequests /\ reqs + throws < MaxEvents
  /\ CanCall(i)
  /\ SetHeap(forceUpdate(Cur, i, cb))
  /\ reqs' = reqs + 1
  /\ last' = Quiet
  /\ UNCHANGED <<debounceRendering, flushVars, throws, pend, passNo, passRenders, passSeq,
                 strategyChanged>>

\* user code assigns options.debounceRendering
SetDebounce(d) ==
  /\ UNCHANGED sideVars
  /\ UserCodeRuns
  /\ reqs < MaxRequests /\ reqs + throws < MaxEvents
  /\ d # debounceRendering
  /\ debounceRendering' = d
  /\ strategyChanged' = TRUE
  /\ reqs' = reqs + 1
  /\ last' = Quiet
  /\ UNCHANGED <<inst, rerenderQueue, rerenderCount, prevDebounce, scheduled,
                 flushVars, throws, pend, passVars>>

\* ------------------------------------------------------------------- tree
AllSlots == [t \in 1..NumSlots |-> t]
AllInsts == [j \in 1..NumInst |-> j]
ChildSeq(s) == SelectSeq(AllSlots, LAMBDA t : SlotParent(t) = s)
Reverse(q) == [k \in 1..Len(q) |-> q[Len(q) + 1 - k]]

\* the child instances in c._vnode._children
Kids(I, c) == {k \in Insts : I[k].slot # 0 /\ I[k].parent = c /\ I[k].attached}
OldKid(I, c, t) ==
  IF \E k \in Kids(I, c) : I[k].slot = t
  THEN CHOOSE k \in Kids(I, c) : I[k].slot = t
  ELSE 0
\* c._vnode is dropped or loses its children: they stay behind, never unmounted
Orphan(I, c) ==
  [k \in Insts |-> IF k \in Kids(I, c) THEN [I[k] EXCEPT !.attached = FALSE] ELSE I[k]]

\* the props a parent's render passes to a child: taken from the parent's state
ChildProps(I, p) == IF p = 0 THEN 0 ELSE I[p].state["a"]
\* the partial state getDerivedStateFromProps returns
Derive(props) == [k \in {"b"} |-> props]

\* ids of Component objects not constructed and not promised to a pending mount
FreeSeq(I, stk) ==
  SelectSeq(AllInsts, LAMBDA j :
    /\ I[j].slot = 0
    /\ \A k \in DOMAIN stk : ~(stk[k].op = "diff" /\ stk[k].fresh /\ stk[k].i = j))

\* What render() of the class in slot s can return for its child slots: no
\* child, a newly created element, or the element object it returned last time.
ChoiceSet(s) == [ChildSlots(s) -> {"absent", "new", "same"}]
Choices == UNION {ChoiceSet(s) : s \in Slots}

ValidChoice(I, stk, c, ch) ==
  LET s == I[c].slot
      need == {t \in ChildSlots(s) : ch[t] # "absent" /\ OldKid(I, c, t) = 0}
  IN /\ \A t \in ChildSlots(s) : ch[t] = "same" => OldKid(I, c, t) # 0
     /\ Cardinality(need) <= Len(FreeSeq(I, stk))

\* The work diffChildren does for the children render() returned: the diff of
\* every new child in order, then the unmount of the old children left over
\* (from the last to the first), then the rest of the parent's diff.
ChildFrames(I, stk, c, kind, ch, cpe) ==
  LET s == I[c].slot
      free == FreeSeq(I, stk)
      need(t) == ch[t] # "absent" /\ OldKid(I, c, t) = 0
      rank(t) == Cardinality({t2 \in ChildSlots(s) : t2 <= t /\ need(t2)})
      target(t) == IF need(t) THEN free[rank(t)] ELSE OldKid(I, c, t)
      present == SelectSeq(ChildSeq(s), LAMBDA t : ch[t] # "absent")
      gone == SelectSeq(ChildSeq(s), LAMBDA t : ch[t] = "absent" /\ OldKid(I, c, t) # 0)
      diffs == [k \in 1..Len(present) |->
                 Frame("diff", target(present[k]), present[k], ch[present[k]],
                       need(present[k]), c, FALSE)]
      unmounts == [k \in 1..Len(gone) |->
                    Frame("unmount", OldKid(I, c, Reverse(gone)[k]), Reverse(gone)[k],
                          "none", FALSE, c, FALSE)]
  IN diffs \o unmounts \o <<Frame("post", c, s, kind, FALSE, 0, cpe)>>

\* the children of the vnode the tree holds for c: none when the tree holds a
\* vnode whose diff threw before it became c._vnode
TreeKids(I, c) == IF I[c].detached THEN {} ELSE Kids(I, c)

RECURSIVE Subtree(_, _)
\* the instances unmount(vnode) reaches through vnode._children
Subtree(I, c) == {c} \cup UNION {Subtree(I, k) : k \in TreeKids(I, c)}

\* the _original of the vnode a diff leaves in the tree, relative to the element
\* object the parent's render returned (toChildArray copies a used element)
Stamped(Ic, kind) ==
  CASE kind = "new" -> [Ic EXCEPT !.vIsElem = TRUE, !.stampOk = TRUE, !.elemNulled = FALSE]
    [] kind = "same" -> [Ic EXCEPT !.vIsElem = FALSE, !.stampOk = ~Ic.elemNulled]
    [] OTHER -> Ic

\* a catch block that invalidates a copy and leaves the element's stamp alone
NulledCopy(Ic, kind) == [Ic EXCEPT !.stampOk = FALSE]
\* a catch block that leaves the stamp as a diff without an exception does
NotNulled(Ic, kind) == Stamped(Ic, kind)
\* diff, line 1045: newVNode._original = null
Nulled(Ic, kind) ==
  CASE kind = "new" -> [Ic EXCEPT !.vIsElem = TRUE, !.stampOk = FALSE, !.elemNulled = TRUE]
    [] kind = "same" -> [Ic EXCEPT !.vIsElem = FALSE, !.stampOk = FALSE]
    [] OTHER -> IF Ic.detached THEN Ic
                ELSE [Ic EXCEPT !.stampOk = FALSE, !.elemNulled = @ \/ Ic.vIsElem]

\* ------------------------------------------------------------ _catchError
\* which handler of which ancestor throws during a walk
HandlerThrows == [Insts -> {"none", "gdsfe", "cdc"}]
Thrown(ht) == Cardinality({i \in Insts : ht[i] # "none"})

\* a walk that takes no component for mid-error-handling
NeverMidHandling(Ic) == FALSE
\* line 43: component._processingException
MidHandling(Ic) == Ic.processingException

\* a walk that consults nobody and re-raises
CatchWalkRaise(G, a, hasCaught, ht) ==
  [G |-> G, handled |-> FALSE, by |-> 0, used |-> 0, ran |-> {}]

RECURSIVE CatchWalk(_, _, _, _)
\* _catchError, the loop from the ancestor a on: hasCaught is the flag the
\* iterations share, ht the handlers that throw.  The result says whether a
\* boundary took the error, how many handlers threw and on which instances
\* setState(getDerivedStateFromError(error)) ran.
CatchWalk(G, a, hasCaught, ht) ==
  IF a = 0 THEN [G |-> G, handled |-> FALSE, by |-> 0, used |-> 0, ran |-> {}]
  ELSE
    LET I == G.inst[a]
        s == I.slot
        threw1 == HasGDSFE(s) /\ ht[a] = "gdsfe"
        ran1 == HasGDSFE(s) /\ ~threw1
        G1 == IF ran1 THEN setState(G, a, "setB", FALSE) ELSE G
        hc1 == hasCaught \/ HasGDSFE(s)
        threw2 == ~threw1 /\ HasDidCatch(s) /\ ht[a] = "cdc"
        hc2 == hc1 \/ (~threw1 /\ HasDidCatch(s))
        up == CatchWalk(G1, I.parent, IF threw1 THEN hc1 ELSE hc2, ht)
    IN IF MidHandling(I) THEN CatchWalk(G, I.parent, hasCaught, ht)
       ELSE IF threw1 \/ threw2
            THEN [up EXCEPT !.used = @ + 1, !.ran = IF ran1 THEN @ \cup {a} ELSE @]
       ELSE IF hc2
            THEN [G |-> enqueueRender([G1 EXCEPT !.inst[a].pendingError = TRUE], a),
                  handled |-> TRUE, by |-> a, used |-> 0,
                  ran |-> IF ran1 THEN {a} ELSE {}]
       ELSE [up EXCEPT !.ran = IF ran1 THEN @ \cup {a} ELSE @]

\* --------------------------------------------------------------- the diff
Top == stack[1]
Rest == Tail(stack)
AfterDiff(stk) == IF stk = <<>> THEN "commit" ELSE "diff"
NoThrows == [i \in Insts |-> "none"]
Canon(s) == [t \in ChildSlots(s) |-> "absent"]
\* the setState calls among the staged updates
Calls(q) == Len(SelectSeq(q, LAMBDA e : e.u # "derive"))
RenderCounted(c) == IF ctx = "process" THEN [passRenders EXCEPT ![c] = @ + 1] ELSE passRenders

\* a step that ends without an exception: the heap is I, the work left is stk
NoCatch(I, stk, pd) ==
  /\ SetHeap([Cur EXCEPT !.inst = I])
  /\ pend' = pd
  /\ throws' = throws
  /\ exc' = FALSE
  /\ stack' = stk
  /\ pc' = IF pc = "diff" THEN AfterDiff(stk) ELSE pc

\* the catch block of diff / commitRoot / unmount: options._catchError walks up
\* from the ancestor a; cost is 1 when user code threw the exception
Catch(G, a, stk, ht, cost, pd) ==
  LET W == CatchWalk(G, a, FALSE, ht)
  IN /\ W.used = Thrown(ht)
     /\ throws + cost + W.used <= MaxThrows
     /\ reqs + throws + cost + W.used <= MaxEvents
     /\ SetHeap(W.G)
     /\ pend' = [i \in Insts |->
                  IF i \in W.ran THEN Append(pd[i], Entry("setB", 0)) ELSE pd[i]]
     /\ throws' = throws + cost + W.used
     /\ exc' = ~W.handled
     /\ stack' = stk
     /\ pc' = IF W.handled /\ pc = "diff" THEN AfterDiff(stk) ELSE pc

\* diff, lines 876-907: a new Component is constructed for a new child
Construct ==
  /\ UNCHANGED sideVars
  /\ pc = "diff" /\ ~exc /\ stack # <<>>
  /\ Top.op = "diff" /\ Top.fresh
  /\ LET c == Top.i
         p == Top.p
         props == ChildProps(inst, p)
         s0 == IF HasGDSFP(Top.slot) THEN assign(InitState, Derive(props)) ELSE InitState
         Ic == [NoInst EXCEPT !.slot = Top.slot, !.parent = p, !.attached = TRUE,
                              !.props = props, !.state = InitState, !.nextState = s0,
                              !.staged = HasGDSFP(Top.slot), !.dirty = TRUE,
                              !.vIsElem = TRUE, !.stampOk = TRUE]
     IN /\ inst' = [inst EXCEPT ![c] = Ic]
        /\ stack' = <<[Top EXCEPT !.op = "mount", !.fresh = FALSE]>> \o Rest
        /\ pend' = [pend EXCEPT ![c] = IF HasGDSFP(Top.slot)
                                        THEN <<Entry("derive", props)>> ELSE <<>>]
        /\ last' = Did(IF HasGDSFP(Top.slot) THEN <<"constructor", "gDSFP">>
                       ELSE <<"constructor">>, c, 0)
  /\ UNCHANGED <<schedVars, ctx, pc, queue, qi, commitQueue, exc, reqs, throws,
                 passVars, strategyChanged>>

\* diff, lines 909-923 and 974-1011: the first render of a new Component;
\* th is the method that throws, ch what render returns
Mount(ch, th, ht) ==
  /\ UNCHANGED sideVars
  /\ pc = "diff" /\ ~exc /\ stack # <<>>
  /\ Top.op = "mount"
  /\ LET c == Top.i
         s == inst[c].slot
         a == inst[c].parent
         cwm == IF HasGDSFP(s) THEN <<>> ELSE <<"cWM">>
         Ir == [inst[c] EXCEPT
                  !.cbs = IF HasDidMount(s) THEN Append(@, "didMount") ELSE @,
                  !.state = inst[c].nextState, !.staged = FALSE,
                  !.dirty = FALSE, !.hasVnode = TRUE, !.parentDom = TRUE]
         I1 == [inst EXCEPT ![c] = Ir]
         pd0 == [pend EXCEPT ![c] = <<>>]
     IN /\ ch \in ChoiceSet(s)
        /\ CASE th = "cWM" ->
                  /\ ~HasGDSFP(s) /\ ch = Canon(s)
                  /\ Catch([Cur EXCEPT !.inst[c] =
                              Nulled([inst[c] EXCEPT !.detached = TRUE], "new")],
                           a, Rest, ht, 1, pend)
                  /\ last' = Did(<<"cWM", "!">>, c, 0)
                  /\ UNCHANGED passRenders
             [] th = "render" ->
                  /\ ch = Canon(s)
                  /\ Catch([Cur EXCEPT !.inst[c] =
                              Nulled([Ir EXCEPT !.vnodeNull = TRUE], "new")],
                           a, Rest, ht, 1, pd0)
                  /\ last' = Did(cwm \o <<"render", "!">>, c, Calls(pend[c]))
                  /\ passRenders' = RenderCounted(c)
             [] th = "none" ->
                  /\ ht = NoThrows
                  /\ ValidChoice(I1, Rest, c, ch)
                  /\ NoCatch(I1, ChildFrames(I1, Rest, c, "new", ch, FALSE) \o Rest, pd0)
                  /\ last' = Did(cwm \o <<"render">>, c, Calls(pend[c]))
                  /\ passRenders' = RenderCounted(c)
             [] OTHER -> FALSE
  /\ UNCHANGED <<debounceRendering, ctx, queue, qi, commitQueue, reqs,
                 passNo, passSeq, strategyChanged>>

\* newProps !== oldProps, line 927: the vnode carries another props object
PropsDiffer(Ic, kind) == kind = "new" \/ (kind = "same" /\ Ic.tprops # -1)

NewProps(I, c, kind) ==
  CASE kind = "new" -> ChildProps(I, I[c].parent)
    [] kind = "same" -> IF I[c].tprops # -1 THEN I[c].tprops ELSE I[c].props
    [] OTHER -> I[c].props

InvokesCWRP(Ic, kind) == ~HasGDSFP(Ic.slot) /\ PropsDiffer(Ic, kind) /\ HasCWRP(Ic.slot)
\* shouldComponentUpdate asked whatever c._force says
InvokesSCUForced(Ic) == HasSCU(Ic.slot)
InvokesSCU(Ic) == ~Ic.force /\ HasSCU(Ic.slot)

\* the lifecycle methods an update of c invokes before the bail-out test
PreHooks(Ic, kind) ==
  (IF HasGDSFP(Ic.slot) THEN <<"gDSFP">> ELSE <<>>)
  \o (IF InvokesCWRP(Ic, kind) THEN <<"cWRP">> ELSE <<>>)
  \o (IF InvokesSCU(Ic) THEN <<"sCU">> ELSE <<>>)

\* diff, lines 872-874 and 894-907: the Component of the old vnode is taken over
Taken(Ic, newProps) ==
  LET I1 == [Ic EXCEPT !.processingException = Ic.pendingError]
  IN IF HasGDSFP(Ic.slot)
     THEN [I1 EXCEPT !.nextState = assign(Ic.nextState, Derive(newProps)), !.staged = TRUE]
     ELSE I1

\* diff, lines 933-941: the update stops before render
BailsOut(Ic, kind, sc) ==
  \/ InvokesSCU(Ic) /\ ~sc
  \/ kind = "same" /\ Ic.stampOk /\ ~Ic.processingException

\* the new vnode takes the place of the old one as c._vnode
Placed(Ic, kind) ==
  IF kind = "self" THEN Ic ELSE [Ic EXCEPT !.detached = FALSE, !.tprops = -1]

\* a bail-out that leaves this.props and this.state as they were
BailedOutStale(Ic, kind, newProps) ==
  Placed(Stamped([Ic EXCEPT !.dirty = IF kind = "same" /\ Ic.stampOk THEN @ ELSE FALSE,
                            !.hasVnode = TRUE], kind), kind)

\* diff, lines 943-952: what a bail-out leaves of the instance
BailedOut(Ic, kind, newProps) ==
  Placed(Stamped([Ic EXCEPT !.props = newProps, !.state = Ic.nextState, !.staged = FALSE,
                            !.dirty = IF kind = "same" /\ Ic.stampOk THEN @ ELSE FALSE,
                            !.hasVnode = TRUE], kind), kind)

\* diff, lines 963-982: what the instance is when render is called
Rendering(Ic, kind, newProps) ==
  Placed(Stamped([Ic EXCEPT
                    !.cbs = IF HasDidUpdate(Ic.slot) THEN Append(@, "didUpdate") ELSE @,
                    !.props = newProps, !.state = Ic.nextState, !.staged = FALSE,
                    !.dirty = FALSE, !.hasVnode = TRUE, !.parentDom = TRUE], kind), kind)

\* a lifecycle method threw before line 974: the new vnode stays in the tree
\* without children and without becoming c._vnode
PreThrown(Ic, kind, newProps) ==
  IF kind = "self" THEN Nulled(Ic, kind)
  ELSE Nulled([Ic EXCEPT !.detached = TRUE,
                         !.tprops = IF kind = "new" THEN newProps ELSE @], kind)

\* diff, lines 872-1011 for a Component that exists: sc is what
\* shouldComponentUpdate returns, ch what render returns, th the method that throws
Update(sc, ch, th, ht) ==
  /\ UNCHANGED sideVars
  /\ pc = "diff" /\ ~exc /\ stack # <<>>
  /\ Top.op = "diff" /\ ~Top.fresh
  /\ LET c == Top.i
         kind == Top.kind
         newProps == NewProps(inst, c, kind)
         It == Taken(inst[c], newProps)
         s == It.slot
         a == It.parent
         pd == [pend EXCEPT ![c] = IF HasGDSFP(s)
                                   THEN Append(@, Entry("derive", newProps)) ELSE @]
         pd0 == [pend EXCEPT ![c] = <<>>]
         n == Calls(pend[c])
         pre == PreHooks(It, kind)
         cwu == IF HasCWU(s) THEN <<"cWU">> ELSE <<>>
         bails == BailsOut(It, kind, sc)
         oldNull == (kind # "self" /\ It.detached) \/ It.vnodeNull
         Ib == BailedOut(It, kind, newProps)
         Ir == Rendering(It, kind, newProps)
         pushed == IF It.cbs # <<>> THEN Append(commitQueue, c) ELSE commitQueue
     IN /\ ch \in ChoiceSet(s)
        /\ InvokesSCU(It) \/ sc
        /\ CASE th = "cWRP" ->
                  /\ InvokesCWRP(It, kind) /\ sc /\ ch = Canon(s)
                  /\ Catch([Cur EXCEPT !.inst[c] = PreThrown(It, kind, newProps)],
                           a, Rest, ht, 1, pd)
                  /\ last' = Did(<<"cWRP", "!">>, c, 0)
                  /\ UNCHANGED <<commitQueue, passRenders>>
             [] th = "sCU" ->
                  /\ InvokesSCU(It) /\ sc /\ ch = Canon(s)
                  /\ Catch([Cur EXCEPT !.inst[c] = PreThrown(It, kind, newProps)],
                           a, Rest, ht, 1, pd)
                  /\ last' = Did(pre \o <<"!">>, c, 0)
                  /\ UNCHANGED <<commitQueue, passRenders>>
             [] th = "cWU" ->
                  /\ ~bails /\ HasCWU(s) /\ ch = Canon(s)
                  /\ Catch([Cur EXCEPT !.inst[c] = PreThrown(It, kind, newProps)],
                           a, Rest, ht, 1, pd)
                  /\ last' = Did(pre \o <<"cWU", "!">>, c, 0)
                  /\ UNCHANGED <<commitQueue, passRenders>>
             [] th = "render" ->
                  /\ ~bails /\ ch = Canon(s)
                  /\ Catch([Cur EXCEPT !.inst =
                              IF kind = "self"
                              THEN [inst EXCEPT ![c] = Nulled(Ir, kind)]
                              ELSE Orphan([inst EXCEPT ![c] =
                                             Nulled([Ir EXCEPT !.vnodeNull = TRUE], kind)], c)],
                           a, Rest, ht, 1, pd0)
                  /\ last' = Did(pre \o cwu \o <<"render", "!">>, c, n)
                  /\ passRenders' = RenderCounted(c)
                  /\ UNCHANGED commitQueue
             [] th = "none" /\ bails /\ oldNull ->
                  \* line 954 reads the length of the null _children: a TypeError
                  /\ ch = Canon(s)
                  /\ Catch([Cur EXCEPT !.inst =
                              Orphan([inst EXCEPT ![c] =
                                        Nulled([Ib EXCEPT !.vnodeNull = TRUE], kind)], c)],
                           a, Rest, ht, 0, pd0)
                  /\ commitQueue' = pushed
                  /\ last' = Did(pre \o <<"!">>, c, n)
                  /\ UNCHANGED passRenders
             [] th = "none" /\ bails /\ ~oldNull ->
                  /\ ch = Canon(s) /\ ht = NoThrows
                  /\ NoCatch([inst EXCEPT ![c] = Ib], Rest, pd0)
                  /\ commitQueue' = pushed
                  /\ last' = Did(pre, c, n)
                  /\ UNCHANGED passRenders
             [] th = "none" /\ ~bails ->
                  LET I0 == IF kind # "self" /\ It.detached THEN Orphan(inst, c) ELSE inst
                      I1 == [I0 EXCEPT ![c] = [Ir EXCEPT !.vnodeNull = FALSE]]
                  IN /\ ht = NoThrows
                     /\ ValidChoice(I1, Rest, c, ch)
                     /\ NoCatch(I1, ChildFrames(I1, Rest, c, kind, ch, It.pendingError)
                                    \o Rest, pd0)
                     /\ last' = Did(pre \o cwu \o <<"render">>, c, n)
                     /\ passRenders' = RenderCounted(c)
                     /\ UNCHANGED commitQueue
             [] OTHER -> FALSE
  /\ UNCHANGED <<debounceRendering, ctx, queue, qi, reqs, passNo, passSeq, strategyChanged>>

\* diff, lines 1013-1023: after the children of c are diffed
Post ==
  /\ UNCHANGED sideVars
  /\ pc = "diff" /\ ~exc /\ stack # <<>>
  /\ Top.op = "post"
  /\ LET c == Top.i
     IN /\ commitQueue' = IF inst[c].cbs # <<>> THEN Append(commitQueue, c) ELSE commitQueue
        /\ inst' = [inst EXCEPT
             ![c].pendingError = IF Top.cpe THEN FALSE ELSE @,
             ![c].processingException = IF Top.cpe THEN FALSE ELSE @,
             ![c].force = FALSE]
        /\ last' = Did(<<>>, c, 0)
  /\ stack' = Rest
  /\ pc' = AfterDiff(Rest)
  /\ UNCHANGED <<schedVars, ctx, queue, qi, exc, reqs, throws, pend, passVars,
                 strategyChanged>>

\* unmount(vnode, vnode) of an old child left over, with its subtree; th says
\* that componentWillUnmount of that child throws
Unmount(th, ht) ==
  /\ UNCHANGED sideVars
  /\ pc = "diff" /\ ~exc /\ stack # <<>>
  /\ Top.op = "unmount"
  /\ LET u == Top.i
         a == inst[u].parent
         gone == Subtree(inst, u)
         I1 == [i \in Insts |->
                 IF i \in gone
                 THEN [inst[i] EXCEPT !.parentDom = FALSE, !.attached = FALSE]
                 ELSE inst[i]]
         cwun == IF HasCWUnmount(inst[u].slot) THEN <<"cWUnmount">> ELSE <<>>
     IN IF th
        THEN /\ HasCWUnmount(inst[u].slot)
             /\ IF CatchWalk(Cur, a, FALSE, ht).handled
                THEN Catch([Cur EXCEPT !.inst = I1], a, Rest, ht, 1, pend)
                ELSE Catch([Cur EXCEPT !.inst[u].attached = FALSE], a, Rest, ht, 1, pend)
             /\ last' = Did(<<"cWUnmount", "!">>, u, 0)
        ELSE /\ ht = NoThrows
             /\ NoCatch(I1, Rest, pend)
             /\ last' = Did(cwun, u, 0)
  /\ UNCHANGED <<debounceRendering, ctx, queue, qi, commitQueue, reqs,
                 passNo, passRenders, passSeq, strategyChanged>>

\* commitRoot: the callbacks of the next component of the commit queue run;
\* k > 0 says that the k-th of them throws
Commit(k, ht) ==
  /\ UNCHANGED sideVars
  /\ pc = "commit" /\ ~exc /\ commitQueue # <<>>
  /\ LET c == Head(commitQueue)
         cbs == inst[c].cbs
         I1 == [inst EXCEPT ![c].cbs = <<>>]
     IN /\ k \in 0..Len(cbs)
        /\ IF k = 0
           THEN /\ ht = NoThrows
                /\ NoCatch(I1, <<>>, pend)
                /\ last' = Did(cbs, c, 0)
           ELSE /\ Catch([Cur EXCEPT !.inst = I1], inst[c].parent, <<>>, ht, 1, pend)
                /\ last' = Did(SubSeq(cbs, 1, k) \o <<"!">>, c, 0)
  /\ commitQueue' = Tail(commitQueue)
  /\ UNCHANGED <<debounceRendering, ctx, queue, qi, reqs,
                 passNo, passRenders, passSeq, strategyChanged>>

\* commitRoot returns, and with it renderComponent or the first render
Return ==
  /\ UNCHANGED sideVars
  /\ pc = "commit" /\ ~exc /\ commitQueue = <<>>
  /\ pc' = IF ctx = "process" THEN "some" ELSE "idle"
  /\ ctx' = IF ctx = "process" THEN "process" ELSE "idle"
  /\ last' = Quiet
  /\ UNCHANGED <<inst, schedVars, queue, qi, stack, commitQueue, exc, reqs, throws,
                 pend, passVars, strategyChanged>>

\* An exception no boundary took leaves the innermost running diff through its
\* catch block (lines 1044-1047), which walks up again from that diff's vnode;
\* with no diff left it leaves process, or the first render, for the caller.
Unwind(ht) ==
  /\ UNCHANGED sideVars
  /\ exc
  /\ LET posts == {k \in DOMAIN stack : stack[k].op = "post"}
     IN IF posts = {}
        THEN /\ ht = NoThrows
             /\ SetHeap(Cur)
             /\ UNCHANGED <<pend, throws>>
             /\ exc' = FALSE
             /\ stack' = <<>>
             /\ pc' = "idle"
             /\ commitQueue' = <<>>
             /\ queue' = <<>>
             /\ qi' = 1
             /\ ctx' = "idle"
             /\ last' = Did(<<"uncaught">>, 0, 0)
        ELSE LET k == CHOOSE m \in posts : \A m2 \in posts : m <= m2
                 P == stack[k].i
                 left == {stack[m].i : m \in {m2 \in 1..(k - 1) : ~stack[m2].fresh}}
                 I1 == [i \in Insts |->
                         IF i = P THEN Nulled(inst[i], stack[k].kind)
                         ELSE IF i \in left THEN [inst[i] EXCEPT !.attached = FALSE]
                         ELSE inst[i]]
             IN /\ Catch([Cur EXCEPT !.inst = I1], inst[P].parent,
                         SubSeq(stack, k + 1, Len(stack)), ht, 0, pend)
                /\ last' = Did(<<"!">>, P, 0)
                /\ UNCHANGED <<commitQueue, queue, qi, ctx>>
  /\ UNCHANGED <<debounceRendering, reqs, passNo, passRenders, passSeq, strategyChanged>>

\* ---------------------------------------------------------------- process
\* a deferred callback runs process()
ProcessStart ==
  /\ UNCHANGED sideVars
  /\ pc = "idle" /\ scheduled > 0
  /\ scheduled' = scheduled - 1
  /\ ctx' = "process"
  /\ pc' = "loop"
  /\ last' = Quiet
  /\ passNo' = 0
  /\ UNCHANGED <<inst, rerenderQueue, rerenderCount, prevDebounce, debounceRendering,
                 queue, qi, stack, commitQueue, exc, reqs, throws, pend,
                 passRenders, passMarks, passSeq, strategyChanged>>

\* process, lines 378-380: the loop test, the sort and the snapshot
ProcessLoop ==
  /\ UNCHANGED sideVars
  /\ pc = "loop"
  /\ rerenderCount' = Len(rerenderQueue)
  /\ IF rerenderQueue = <<>>
     THEN /\ pc' = "idle" /\ ctx' = "idle"
          /\ queue' = <<>> /\ qi' = 1
          /\ passNo' = 0
          /\ UNCHANGED rerenderQueue
     ELSE /\ queue' = SortByDepth(inst, rerenderQueue)
          /\ rerenderQueue' = <<>>
          /\ qi' = 1
          /\ pc' = "some"
          /\ passNo' = passNo + 1
          /\ UNCHANGED ctx
  /\ last' = Quiet
  /\ passRenders' = [i \in Insts |-> 0]
  /\ passMarks' = [i \in Insts |-> 0]
  /\ passSeq' = <<>>
  /\ UNCHANGED <<inst, prevDebounce, debounceRendering, scheduled, stack, commitQueue,
                 exc, reqs, throws, pend, strategyChanged>>

\* every entry of the snapshot taken for dirty
DirtyIgnored(Ic) == TRUE
\* process, line 384: if (c._dirty)
StillDirty(Ic) == Ic.dirty

\* process, lines 383-385, and renderComponent, lines 283-302
ProcessEntry ==
  /\ UNCHANGED sideVars
  /\ pc = "some"
  /\ IF qi > Len(queue)
     THEN /\ pc' = "loop"
          /\ UNCHANGED <<qi, stack, commitQueue, passSeq>>
     ELSE LET c == queue[qi]
          IN /\ qi' = qi + 1
             /\ IF StillDirty(inst[c]) /\ inst[c].parentDom
                THEN /\ stack' = <<Frame("diff", c, inst[c].slot, "self", FALSE,
                                         inst[c].parent, FALSE)>>
                     /\ commitQueue' = <<>>
                     /\ pc' = "diff"
                     /\ passSeq' = Append(passSeq, c)
                ELSE UNCHANGED <<stack, commitQueue, pc, passSeq>>
  /\ last' = Quiet
  /\ UNCHANGED <<inst, schedVars, ctx, queue, exc, reqs, throws, pend,
                 passNo, passRenders, passMarks, strategyChanged>>

HandlerThrowSets == {ht \in HandlerThrows : ht = NoThrows \/ Thrown(ht) < MaxThrows}

Next ==
  \/ \E i \in Insts, r \in UserCalls : SetState(i, r[1], r[2])
  \/ \E i \in Insts, cb \in BOOLEAN : ForceUpdate(i, cb)
  \/ \E d \in {"default", "custom"} : SetDebounce(d)
  \/ Construct
  \/ \E ch \in Choices, th \in {"none", "cWM", "render"}, ht \in HandlerThrowSets :
       Mount(ch, th, ht)
  \/ \E sc \in BOOLEAN, ch \in Choices, th \in {"none", "cWRP", "sCU", "cWU", "render"},
        ht \in HandlerThrowSets : Update(sc, ch, th, ht)
  \/ Post
  \/ \E th \in BOOLEAN, ht \in HandlerThrowSets : Unmount(th, ht)
  \/ \E k \in 0..(MaxRequests + 2), ht \in HandlerThrowSets : Commit(k, ht)
  \/ Return
  \/ \E ht \in HandlerThrowSets : Unwind(ht)
  \/ ProcessStart
  \/ ProcessLoop
  \/ ProcessEntry

Spec == Init /\ [][Next]_vars

\* ------------------------------------------------------------- properties
Range(q) == {q[k] : k \in DOMAIN q}
Count(q, c) == Cardinality({k \in DOMAIN q : q[k] = c})

\* the steps in which user code calls a method of instance i
SetStateStep(i) == \E r \in UserCalls : SetState(i, r[1], r[2])
ForceUpdateStep(i) == \E cb \in BOOLEAN : ForceUpdate(i, cb)

RECURSIVE MarksUp(_)
\* the times i and its ancestors were marked dirty during the running pass
MarksUp(i) == IF i = 0 THEN 0 ELSE passMarks[i] + MarksUp(inst[i].parent)

\* C1 as stated: during one pass of the flush loop every instance is rendered
\* at most once, re-entrant requests and ancestor-driven re-renders included.
C1_OncePerPass == \A i \in Insts : passRenders[i] <= 1

\* C1, amended: during one pass an instance is rendered at most once more
\* than the number of times it or an ancestor was marked dirty again in that
\* pass; without such a re-entrant mark it is rendered at most once, also when
\* its dirty ancestor's diff re-renders it before process reaches it.
C1_OncePerPassUnlessMarkedAgain ==
  \A i \in Insts : passRenders[i] <= 1 + MarksUp(i)

\* a queued descendant was re-rendered by its ancestor's diff and then skipped
C1_Witness ==
  /\ pc = "some" /\ qi > Len(queue)
  /\ \E i \in Range(queue) :
       /\ inst[i].parent \in Range(passSeq)
       /\ i \notin Range(passSeq)
       /\ passRenders[i] = 1 /\ passMarks[i] = 0

\* C2: in every pass process renders the still-dirty entries of the snapshot
\* in non-decreasing tree depth, so an ancestor is rendered before a
\* descendant queued in the same snapshot.
C2_DepthOrder ==
  \A j, k \in DOMAIN passSeq :
    j < k => Depth(inst[passSeq[j]].slot) <= Depth(inst[passSeq[k]].slot)

\* process rendered an ancestor and then its descendant in one pass
C2_Witness ==
  /\ Len(passSeq) >= 2
  /\ inst[passSeq[2]].parent = passSeq[1]
  /\ passRenders[passSeq[2]] >= 1

\* C3 as stated: the render queue holds every instance at most once.
C3_QueueIsSet == \A c \in Insts : Count(rerenderQueue, c) <= 1

\* C3, amended: an instance is appended to the render queue only while its
\* dirty flag is clear, one entry at a time, and the append sets the flag; the
\* queue holds an instance twice once a render cleared the flag of a queued
\* instance and a later request appended it again.
C3_AppendedOnlyWhenClean ==
  [][\A c \in Insts :
       Count(rerenderQueue', c) > Count(rerenderQueue, c)
         => /\ ~inst[c].dirty /\ inst'[c].dirty
            /\ rerenderQueue' = Append(rerenderQueue, c)]_vars

\* an instance is in the render queue twice
C3_Witness == \E c \in Insts : Count(rerenderQueue, c) = 2 /\ inst[c].dirty

\* C4 as stated: enqueueRender of an instance that is already dirty changes
\* nothing: no queue change and no flush scheduled.
C4_NoOpWhenDirty ==
  \A c \in Insts :
    Mounted(inst, c) /\ inst[c].dirty /\ c \in Range(rerenderQueue)
      => enqueueRender(Cur, c) = Cur

\* C4, amended: enqueueRender of a dirty instance leaves the instances and the
\* queue alone, of a clean one marks it dirty and appends it; in both cases it
\* schedules a flush exactly if it appended the first pending item or the
\* batching strategy differs from the one of the last scheduling; as long as
\* the strategy was never changed at most one flush is scheduled at a time.
C4_EnqueueRender ==
  /\ \A c \in Insts :
       Constructed(inst, c) =>
         LET G == enqueueRender(Cur, c)
             first == ~inst[c].dirty /\ rerenderCount = 0
         IN /\ inst[c].dirty =>
                 G.inst = inst /\ G.rerenderQueue = rerenderQueue
            /\ ~inst[c].dirty =>
                 /\ G.inst = [inst EXCEPT ![c].dirty = TRUE]
                 /\ G.rerenderQueue = Append(rerenderQueue, c)
            /\ G.scheduled = scheduled
                 + (IF first \/ prevDebounce # debounceRendering THEN 1 ELSE 0)
  /\ ~strategyChanged => scheduled <= 1

\* a batch of two requests with one flush scheduled
C4_Witness ==
  /\ ~strategyChanged /\ pc = "idle" /\ scheduled = 1
  /\ Len(rerenderQueue) = 2 /\ rerenderCount = 2

\* process returns to its caller without an exception
ProcessReturns == pc = "loop" /\ pc' = "idle"

\* a request made while process runs is kept for a later pass of that call
ReentrantToFreshQueue ==
  \A i \in Insts :
    ctx = "process" /\ ~strategyChanged /\ (SetStateStep(i) \/ ForceUpdateStep(i))
      => /\ queue' = queue /\ scheduled' = scheduled
         /\ Mounted(inst, i) =>
              \/ i \in Range(rerenderQueue')
              \/ i \in Range(SubSeq(queue, qi, Len(queue)))
              \/ \E k \in DOMAIN stack : stack[k].op = "diff" /\ stack[k].i = i
              \/ \E r \in UserCalls: r[1] = "fnNull" /\ SetState(i, r[1], r[2])

\* C5 as stated: requests made during a flush go to a fresh queue that the
\* same process call renders, no further flush is scheduled for them, and
\* when process returns normally the queue is empty and no mounted instance
\* is still dirty.
C5_FlushDrainsEverything ==
  [][ReentrantToFreshQueue
     /\ (ProcessReturns =>
           /\ rerenderQueue' = <<>>
           /\ \A i \in Insts : Mounted(inst', i) => ~inst'[i].dirty)]_vars

\* process has returned and left a mounted instance dirty and unqueued
C5_Witness ==
  /\ pc = "idle" /\ rerenderQueue = <<>> /\ rerenderCount = 0
  /\ \E i \in Insts : Mounted(inst, i) /\ inst[i].attached /\ inst[i].dirty

RECURSIVE Merged(_, _, _)
\* the staged updates of log merged in call order on top of the state s
Merged(s, p, log) ==
  IF log = <<>> THEN s
  ELSE LET e == Head(log)
           part == IF e.u = "derive" THEN Derive(e.p) ELSE UpdateResult(e.u, s, p).part
       IN Merged(assign(s, part), p, Tail(log))

\* the step is an update (render or bail-out) of i that applies its staged state
Applies(i) ==
  /\ pc = "diff" /\ ~exc /\ stack # <<>> /\ stack[1].i = i
  /\ stack[1].op \in {"diff", "mount"} /\ ~stack[1].fresh
  /\ last'.c = i /\ pend'[i] = <<>>

\* the state an update of i must arrive at
Expected(i) ==
  LET m == Merged(inst[i].state, inst[i].props, pend[i])
  IN IF stack[1].op = "diff" /\ HasGDSFP(inst[i].slot)
     THEN assign(m, Derive(inst'[i].props)) ELSE m

\* C6 as stated (the count): the first pass of a flush renders every instance
\* of its snapshot that is still mounted exactly once.
C6_ExactlyOneRender ==
  pc = "some" /\ qi > Len(queue) /\ passNo = 1 /\ throws = 0 =>
    (\A i \in Range(queue) :
       Mounted(inst, i) /\ inst[i].attached => passRenders[i] = 1)

\* process's own update of i (renderComponent) is carried out
Visits(i) ==
  /\ pc = "diff" /\ ~exc /\ stack # <<>> /\ stack[1].i = i
  /\ stack[1].op = "diff" /\ stack[1].kind = "self"
  /\ stack' # stack

\* C6, amended: every update of an instance applies, in one step, the state
\* before the first call with all staged updates merged in call order (each
\* updater having seen the staged state of the calls before it), and leaves
\* nothing staged; process's visit of the instance calls render unless
\* shouldComponentUpdate vetoes the update or a lifecycle method throws; the
\* first pass of the flush renders an instance at most once unless it is
\* marked dirty again during that pass.
C6_BatchedMerge ==
  /\ [][\A i \in Insts :
          /\ Applies(i) =>
               /\ inst'[i].state = Expected(i)
               /\ inst'[i].nextState = inst'[i].state
          /\ Visits(i) =>
               \/ "render" \in Range(last'.hooks)
               \/ "!" \in Range(last'.hooks)
               \/ InvokesSCU(inst[i]) /\ last'.hooks[Len(last'.hooks)] = "sCU"]_vars
  /\ [](passNo = 1 =>
          \A i \in Insts : MarksUp(i) = 0 => passRenders[i] <= 1)

\* one render in the first pass of a flush has merged two setState calls
C6_Witness ==
  /\ ctx = "process" /\ passNo = 1
  /\ last.merged >= 2 /\ last.c # 0
  /\ passRenders[last.c] = 1
  /\ "render" \in Range(last.hooks) /\ "!" \notin Range(last.hooks)
  /\ inst[last.c].state["a"] # inst[last.c].state["b"]

\* the fields of the instances that a request may change are put back
Requested(I, J) ==
  [j \in Insts |-> [J[j] EXCEPT !.nextState = I[j].nextState, !.staged = I[j].staged,
                                !.dirty = I[j].dirty, !.force = I[j].force,
                                !.cbs = I[j].cbs]]

NullUpdateStep(i) == \E r \in UserCalls : r[1] = "fnNull" /\ SetState(i, r[1], r[2])

\* C8: a setState whose updater returns null is dropped: the content of the
\* staged state is unchanged and equals the current state if it did before,
\* the instance is not marked dirty, nothing is enqueued or scheduled and no
\* callback is kept. The one trace it leaves: an instance without a staged
\* state of its own now holds one, a copy of its current state.
C8_NullUpdateDropped ==
  [][\A i \in Insts :
       NullUpdateStep(i)
         => /\ inst' = [inst EXCEPT ![i].staged = TRUE]
            /\ inst'[i].nextState = inst[i].nextState
            /\ inst'[i].dirty = inst[i].dirty /\ inst'[i].cbs = inst[i].cbs
            /\ ~inst[i].staged => inst'[i].nextState = inst'[i].state
            /\ UNCHANGED schedVars]_vars

\* a null update (with a callback) was dropped on a mounted, clean instance
C8_Witness ==
  \E i \in Insts :
    /\ Mounted(inst, i) /\ pend[i] = <<Entry("fnNull", 0)>>
    /\ inst[i].staged /\ inst[i].nextState = inst[i].state
    /\ ~inst[i].dirty /\ inst[i].cbs = <<>> /\ i \notin Range(rerenderQueue)

\* unmount has run for the instance
Unmounted(I, i) == I[i].hasVnode /\ ~I[i].parentDom /\ ~I[i].attached

\* C9 as stated: setState and forceUpdate never add to the render queue an
\* instance that was not rendered yet or that was unmounted.
C9_EnqueuedOnlyIfMounted ==
  [][\A i \in Insts :
       (SetStateStep(i) \/ ForceUpdateStep(i))
       /\ (~inst[i].hasVnode \/ Unmounted(inst, i))
         => rerenderQueue' = rerenderQueue]_vars

\* C9, amended: setState and forceUpdate of an instance that was not rendered
\* yet add nothing to the render queue, mark nothing dirty and schedule
\* nothing; an unmounted instance keeps its _vnode, so they do enqueue it, but
\* it is never rendered again: process skips it.
C9_EnqueuedOnlyWithVnode ==
  [][\A i \in Insts :
       /\ (SetStateStep(i) \/ ForceUpdateStep(i)) /\ ~inst[i].hasVnode
            => /\ UNCHANGED schedVars
               /\ inst'[i].dirty = inst[i].dirty /\ inst'[i].force = inst[i].force
       /\ Unmounted(inst, i)
            => /\ inst'[i].state = inst[i].state
               /\ passRenders'[i] <= passRenders[i]
               /\ ~(last'.c = i /\ "render" \in Range(last'.hooks))]_vars

\* process has skipped an unmounted instance that a request had enqueued
C9_Witness ==
  /\ pc = "some" /\ qi > Len(queue)
  /\ \E i \in Range(queue) :
       Unmounted(inst, i) /\ inst[i].dirty /\ Calls(pend[i]) >= 1

\* C10: a forced update differs from an unforced one whose
\* shouldComponentUpdate returns true in nothing but the call of
\* shouldComponentUpdate: the same other lifecycle methods run, the
\* identical-stamp bail-out applies alike, and bail-out and render leave the
\* instance in the same state.
C10_ForceBypassesOnlySCU ==
  pc = "diff" /\ ~exc /\ stack # <<>> /\ stack[1].op = "diff" /\ ~stack[1].fresh
  /\ inst[stack[1].i].force
    => LET c == stack[1].i
           kind == stack[1].kind
           np == NewProps(inst, c, kind)
           F == Taken(inst[c], np)
           U == [F EXCEPT !.force = FALSE]
       IN /\ ~InvokesSCU(F)
          /\ PreHooks(F, kind) = SelectSeq(PreHooks(U, kind), LAMBDA h : h # "sCU")
          /\ \A sc \in BOOLEAN : BailsOut(F, kind, sc) = BailsOut(U, kind, TRUE)
          /\ BailedOut(F, kind, np) = [BailedOut(U, kind, np) EXCEPT !.force = TRUE]
          /\ Rendering(F, kind, np) = [Rendering(U, kind, np) EXCEPT !.force = TRUE]

\* a forced instance whose class declares shouldComponentUpdate was rendered
\* without shouldComponentUpdate being called
C10_Witness ==
  /\ last.c # 0 /\ inst[last.c].force /\ HasSCU(inst[last.c].slot)
  /\ "render" \in Range(last.hooks)
  /\ "sCU" \notin Range(last.hooks) /\ "!" \notin Range(last.hooks)

\* the update of the instance on top of the stack bails out (no lifecycle
\* method before the test throws); sc is what shouldComponentUpdate returns
BailOutStep(sc, ht) ==
  /\ pc = "diff" /\ ~exc /\ stack # <<>> /\ Top.op = "diff" /\ ~Top.fresh
  /\ BailsOut(Taken(inst[Top.i], NewProps(inst, Top.i, Top.kind)), Top.kind, sc)
  /\ Update(sc, Canon(inst[Top.i].slot), "none", ht)

\* C11: when an update bails out (veto of an unforced update, or identical
\* stamp with no error pending) render is not called, no child is diffed or
\* unmounted and the children stay as they were, yet this.props is the new
\* props and this.state the staged state, with nothing left staged.
C11_BailOutAdvances ==
  [][\A sc \in BOOLEAN, ht \in HandlerThrowSets :
       BailOutStep(sc, ht) =>
         LET c == Top.i
             np == NewProps(inst, c, Top.kind)
             It == Taken(inst[c], np)
         IN /\ "render" \notin Range(last'.hooks)
            /\ passRenders' = passRenders
            /\ inst'[c].props = np
            /\ inst'[c].state = It.nextState
            /\ inst'[c].nextState = inst'[c].state /\ ~inst'[c].staged
            /\ \A k \in Kids(inst, c) :
                 inst'[k] = [inst[k] EXCEPT !.attached = inst'[k].attached]
            /\ \A k \in DOMAIN stack' :
                 stack'[k].op \in {"diff", "unmount"} => stack'[k].p # c
            /\ Top.kind = "self" \/ ~(It.detached \/ It.vnodeNull)
                 => Kids(inst', c) = Kids(inst, c)]_vars

\* shouldComponentUpdate vetoed an update of a parent with staged state: the
\* state was advanced without a render and the child is still in place
C11_Witness ==
  /\ last.c # 0 /\ last.merged >= 1 /\ last.hooks # <<>>
  /\ last.hooks[Len(last.hooks)] = "sCU"
  /\ Kids(inst, last.c) # {}
  /\ inst[last.c].state # InitState /\ ~inst[last.c].staged

\* --------------------------------------------------- _catchError by itself
\* The walk on a chain of NumInst mounted instances of any classes (instance 1
\* the root, instance j + 1 the child of j), for an error thrown by the node
\* v: the vnode of an instance, or the node below the last one (NumInst + 1).
NumClasses == 4      \* class s declares the handlers HasGDSFE(s), HasDidCatch(s)
MaxErrors == 3       \* errors thrown in a run, those thrown by handlers included
Classes == 1..NumClasses
Nodes == 1..(NumInst + 1)

ChainInst(j, cls) ==
  [NoInst EXCEPT !.slot = cls, !.parent = j - 1, !.hasVnode = TRUE,
                 !.parentDom = TRUE, !.attached = TRUE]

\* a walk that starts at the throwing vnode itself
WalkFromSelf(I, v) == IF v \in Insts THEN v ELSE NumInst
\* for (; (vnode = vnode._parent); ): the first vnode looked at is the parent
WalkFrom(I, v) == IF v \in Insts THEN I[v].parent ELSE NumInst

InitWalk ==
  /\ inst \in {[j \in Insts |-> ChainInst(j, cl[j])] : cl \in [Insts -> Classes]}
  /\ rerenderQueue = <<>>
  /\ rerenderCount = 0
  /\ prevDebounce = "default"
  /\ debounceRendering = "default"
  /\ scheduled = 0
  /\ ctx = "idle"
  /\ pc = "idle"
  /\ queue = <<>>
  /\ qi = 1
  /\ stack = <<>>
  /\ commitQueue = <<>>
  /\ exc = FALSE
  /\ reqs = 0
  /\ throws = 0
  /\ last = Quiet
  /\ pend = [i \in Insts |-> <<>>]
  /\ passNo = 0
  /\ passRenders = [i \in Insts |-> 0]
  /\ passMarks = [i \in Insts |-> 0]
  /\ passSeq = <<>>
  /\ strategyChanged = FALSE
  /\ dc = NoDiffChildren
  /\ hk = [pc |-> "off"] /\ um = [pc |-> "off"] /\ mc = [pc |-> "off"]

walkFrame ==
  <<debounceRendering, ctx, pc, queue, qi, stack, commitQueue, reqs, passNo,
    passRenders, passSeq, strategyChanged>>

\* options._catchError(error, vnode) for the node v; exc says it re-raised
Walk(v, ht) ==
  LET W == CatchWalk(Cur, WalkFrom(inst, v), FALSE, ht)
  IN /\ W.used = Thrown(ht)
     /\ throws + 1 + W.used <= MaxErrors
     /\ SetHeap(W.G)
     /\ pend' = [i \in Insts |->
                  IF i \in W.ran THEN Append(pend[i], Entry("setB", 0)) ELSE pend[i]]
     /\ throws' = throws + 1 + W.used
     /\ exc' = ~W.handled
     /\ last' = Did(<<IF W.handled THEN "caught" ELSE "raised">>, W.by, W.used)
     /\ UNCHANGED walkFrame
     /\ UNCHANGED sideVars

\* process takes the queue and the diff of the boundary c starts (872-874):
\* c is mid-error-handling while its children are diffed
BeginRecovery(c) ==
  /\ UNCHANGED sideVars
  /\ rerenderQueue # <<>> /\ Head(rerenderQueue) = c
  /\ inst[c].dirty /\ inst[c].pendingError
  /\ inst' = [inst EXCEPT ![c].processingException = TRUE, ![c].dirty = FALSE,
                          ![c].state = inst[c].nextState, ![c].staged = FALSE]
  /\ rerenderQueue' = Tail(rerenderQueue)
  /\ rerenderCount' = Len(rerenderQueue')
  /\ pend' = [pend EXCEPT ![c] = <<>>]
  /\ exc' = FALSE
  /\ last' = Did(<<"render">>, c, 0)
  /\ UNCHANGED <<prevDebounce, scheduled, throws, passMarks>>
  /\ UNCHANGED walkFrame

\* the diff of the boundary c is through (1017-1019)
EndRecovery(c) ==
  /\ UNCHANGED sideVars
  /\ inst[c].processingException
  /\ inst' = [inst EXCEPT ![c].processingException = FALSE, ![c].pendingError = FALSE]
  /\ exc' = FALSE
  /\ last' = Quiet
  /\ UNCHANGED <<schedVars, throws, pend, passMarks>>
  /\ UNCHANGED walkFrame

NextWalk ==
  \/ \E v \in Nodes, ht \in HandlerThrows : Walk(v, ht)
  \/ \E c \in Insts : BeginRecovery(c)
  \/ \E c \in Insts : EndRecovery(c)

SpecWalk == InitWalk /\ [][NextWalk]_vars

\* ------------------------------------------------ properties of the walk
HasHandler(I, j) == HasGDSFE(I[j].slot) \/ HasDidCatch(I[j].slot)

RECURSIVE Ancestors(_, _)
\* a and the instances above it
Ancestors(I, a) == IF a = 0 THEN {} ELSE {a} \cup Ancestors(I, I[a].parent)

RECURSIVE FirstEligible(_, _)
\* from a upward, the first instance that is not mid-error-handling and
\* declares a handler (0: none)
FirstEligible(I, a) ==
  IF a = 0 THEN 0
  ELSE IF ~I[a].processingException /\ HasHandler(I, a) THEN a
  ELSE FirstEligible(I, I[a].parent)

\* C12: the walk starts at the parent of the throwing node, so the node's own
\* instance and everything below it is never touched; the first ancestor that
\* is not mid-error-handling and declares a handler (its handlers completing)
\* gets the state of getDerivedStateFromError staged if it declares it, is
\* marked pending-error and dirty and is in the render queue; the error is
\* not re-raised and no other instance is consulted or changed.
C12_FirstBoundary ==
  [][\A v \in Nodes, ht \in HandlerThrows :
       Walk(v, ht) =>
         LET a == IF v \in Insts THEN inst[v].parent ELSE NumInst
             f == FirstEligible(inst, a)
         IN /\ \A j \in Insts : v \in Ancestors(inst, j) => inst'[j] = inst[j]
            /\ f # 0 /\ ht[f] = "none" =>
                 /\ ~exc' /\ last'.c = f
                 /\ inst'[f].pendingError /\ inst'[f].dirty
                 /\ f \in Range(rerenderQueue')
                 /\ inst'[f].nextState =
                      IF HasGDSFE(inst[f].slot)
                      THEN assign(inst[f].nextState, [k \in {"b"} |-> MaxVal])
                      ELSE inst[f].nextState
                 /\ \A j \in Insts \ {f} : inst'[j] = inst[j]]_vars

\* instance 3 threw: its parent took the error although the thrower itself
\* and the root declare handlers too
C12_Witness ==
  /\ last.hooks = <<"caught">> /\ last.c = 2
  /\ inst[2].pendingError /\ inst[2].dirty
  /\ HasHandler(inst, 3) /\ ~inst[3].processingException /\ ~inst[3].dirty
  /\ HasHandler(inst, 1) /\ ~inst[1].pendingError /\ ~inst[1].dirty

\* C13: an ancestor that declares neither handler is never the boundary, also
\* after a lower ancestor's handler threw in the same walk: the walk leaves
\* it as it was, and only an ancestor that declares a handler, whose handlers
\* ran without throwing, becomes pending-error.
C13_HandlerlessNeverBoundary ==
  [][\A v \in Nodes, ht \in HandlerThrows :
       Walk(v, ht) =>
         \A j \in Insts :
           /\ ~HasHandler(inst, j) => inst'[j] = inst[j] /\ last'.c # j
           /\ inst'[j].pendingError /\ ~inst[j].pendingError
                => HasHandler(inst, j) /\ ht[j] = "none"]_vars

\* the handler of a lower ancestor threw and an ancestor that declares no
\* handler was made the boundary
C13_Witness ==
  /\ last.hooks = <<"caught">> /\ last.c # 0 /\ last.merged >= 1
  /\ ~HasHandler(inst, last.c)
  /\ inst[last.c].pendingError /\ inst[last.c].dirty

\* C14: an error is never dropped: after every walk either the error is
\* re-raised, or an ancestor that declares a handler, whose handlers completed
\* for it, is pending-error and in the render queue.
C14_NeverDropped ==
  [][\A v \in Nodes, ht \in HandlerThrows :
       Walk(v, ht) =>
         \/ exc'
         \/ \E j \in Ancestors(inst, IF v \in Insts THEN inst[v].parent ELSE NumInst) :
              /\ HasHandler(inst, j) /\ ~inst[j].processingException /\ ht[j] = "none"
              /\ inst'[j].pendingError /\ j \in Range(rerenderQueue')]_vars

\* a walk ended without re-raising although every handler that ran threw
C14_Witness ==
  /\ last.hooks = <<"caught">> /\ ~exc /\ last.merged >= 1
  /\ \A j \in Insts : HasHandler(inst, j) => ~inst[j].pendingError

\* ------------------------------------------- properties of error recovery
\* the step in which render of c throws and no handler throws after it
RenderThrows(c) ==
  /\ throws' = throws + 1
  /\ last'.c = c /\ Len(last'.hooks) >= 2
  /\ last'.hooks[Len(last'.hooks)] = "!"
  /\ last'.hooks[Len(last'.hooks) - 1] = "render"

C16_MidHandlingSkipped ==
  [][\A v \in Nodes, ht \in HandlerThrows :
       Walk(v, ht) =>
         LET f == FirstEligible(inst, IF v \in Insts THEN inst[v].parent ELSE NumInst)
         IN /\ \A j \in Insts :
                 inst[j].processingException =>
                   /\ inst'[j] = inst[j] /\ last'.c # j /\ pend'[j] = pend[j]
                   /\ Count(rerenderQueue', j) = Count(rerenderQueue, j)
            /\ f = 0 => exc' /\ inst' = inst /\ rerenderQueue' = rerenderQueue
            /\ f # 0 /\ ht[f] = "none" => ~exc' /\ last'.c = f]_vars

\* an error from below a recovering boundary that declares handlers went to
\* the root above it
C16_Witness ==
  /\ last.hooks = <<"caught">> /\ last.c = 1
  /\ inst[2].processingException /\ inst[2].pendingError /\ HasHandler(inst, 2)
  /\ ~inst[2].dirty /\ pend[2] = <<>>
  /\ inst[1].pendingError /\ ~inst[1].processingException

\* ------------------------------------- diffChildren of a keyed host list
\* A host element whose children are host elements of one type with distinct
\* keys.  A host node is named by the key of its vnode: a child matched to an
\* old child keeps its node, an unmatched child gets a new one.  dc holds the
\* locals of diffChildren: oldChildren (0: undefined, the child was matched),
\* the index i of the next new child, oldDom (0: null), the child nodes of
\* parentDom, the host operations issued so far on the children of parentDom,
\* and elementDiffs, the nodes diffElementNodes was called for (it creates the
\* node or writes its changed attributes and diffs its children).
MaxKeys == 4         \* keys are 1..MaxKeys; a list holds a key at most once
ChildKeys == 1..MaxKeys

RECURSIVE Arrangements(_)
\* the lists of n distinct keys
Arrangements(n) ==
  IF n = 0 THEN {<<>>}
  ELSE UNION {{Append(q, k) : k \in ChildKeys \ Range(q)} : q \in Arrangements(n - 1)}
KeyedLists == UNION {Arrangements(n) : n \in 0..MaxKeys}

IndexOf(q, x) == IF \E k \in DOMAIN q : q[k] = x
                 THEN CHOOSE k \in DOMAIN q : q[k] = x /\ \A m \in 1..(k - 1) : q[m] # x
                 ELSE 0
Without(q, x) == SelectSeq(q, LAMBDA y : y # x)
\* node.nextSibling (0: null)
NextSibling(dom, x) ==
  LET p == IndexOf(dom, x) IN IF p = 0 \/ p = Len(dom) THEN 0 ELSE dom[p + 1]
\* parentDom.appendChild(x): x leaves the place it had
AppendChild(dom, x) == Append(Without(dom, x), x)
\* an insertBefore that puts the node last
InsertAtEnd(dom, x, ref) == Append(Without(dom, x), x)
\* parentDom.insertBefore(x, ref)
InsertBefore(dom, x, ref) ==
  LET d == Without(dom, x)
      p == IndexOf(d, ref)
  IN SubSeq(d, 1, p - 1) \o <<x>> \o SubSeq(d, p, Len(d))

\* a match that finds no old child
MatchNone(oc, i, key) == 0
\* a match that looks at the old child of the same index only
MatchByIndex(oc, i, key) == IF i <= Len(oc) /\ oc[i] = key THEN i ELSE 0
\* lines 449-476: the index of the old child taken for the new child at index
\* i (0: none): the one at i if key and type are equal, else the first equal one
Match(oc, i, key) ==
  IF i <= Len(oc) /\ oc[i] = key THEN i
  ELSE IF \E j \in DOMAIN oc : oc[j] = key
       THEN CHOOSE j \in DOMAIN oc : oc[j] = key /\ \A m \in 1..(j - 1) : oc[m] # key
       ELSE 0

\* a forward scan that finds nothing
ScanNever(dom, oldDom, newDom, n) == FALSE
\* lines 533-541: newDom is one of the first ceil(n / 2) siblings after oldDom
Scan(dom, oldDom, newDom, n) ==
  LET p == IndexOf(dom, oldDom)
  IN \E t \in 1..Len(dom) :
       /\ 2 * (t - 1) < n
       /\ p + t <= Len(dom)
       /\ dom[p + t] = newDom

Op(o, k) == [op |-> o, key |-> k]

\* what follows the new child at index i - 1
PhaseAfter(oc, new, i) ==
  IF i <= Len(new) THEN "children"
  ELSE IF \E j \in DOMAIN oc : oc[j] # 0 THEN "unmount" ELSE "done"

\* lines 423-440: diffElementNodes calls diffChildren with oldDom = EMPTY_OBJ,
\* so oldDom is the node of the first old child
StartDiffChildren(old, new) ==
  [pc |-> PhaseAfter(old, new, 1), old |-> old, oldChildren |-> old,
   newChildren |-> new, i |-> 1,
   oldDom |-> IF old = <<>> THEN 0 ELSE old[1], dom |-> old, ops |-> <<>>,
   reused |-> {}, elementDiffs |-> {}]

\* a diff that never takes the new vnode for the old one
SameOriginalNever(d, key, j) == FALSE
\* diff, lines 1024-1027: newVNode._original === oldVNode._original, for the
\* new child `key` and the old child at index j (0: EMPTY_OBJ).  d.reused are
\* the new children that are element objects of the old render: toChildArray
\* copies a used element with its _original (lines 644-652)
SameOriginal(d, key, j) == j # 0 /\ key \in d.reused

\* lines 441-598: the callback of toChildArray for the new child at index d.i
diffChild(d) ==
  LET key == d.newChildren[d.i]
      j == Match(d.oldChildren, d.i, key)
      oc == IF j = 0 THEN d.oldChildren ELSE [d.oldChildren EXCEPT ![j] = 0]
      same == SameOriginal(d, key, j)
      newDom == key
      place == newDom # d.oldDom \/ newDom \notin Range(d.dom)
      append == place /\ (d.oldDom = 0 \/ d.oldDom \notin Range(d.dom))
      found == place /\ ~append /\ Scan(d.dom, d.oldDom, newDom, Len(d.old))
      insert == place /\ ~append /\ ~found
      dom1 == IF append THEN AppendChild(d.dom, newDom)
              ELSE IF insert THEN InsertBefore(d.dom, newDom, d.oldDom)
              ELSE d.dom
  IN [d EXCEPT
        !.oldChildren = oc,
        !.dom = dom1,
        !.oldDom = IF append THEN 0
                   ELSE IF insert THEN d.oldDom
                   ELSE NextSibling(dom1, newDom),
        !.ops = @ \o (IF j = 0 THEN <<Op("create", key)>> ELSE <<>>)
                  \o (IF append THEN <<Op("appendChild", key)>>
                      ELSE IF insert THEN <<Op("insertBefore", key)>>
                      ELSE <<>>),
        !.elementDiffs = IF same THEN @ ELSE @ \cup {key},
        !.i = d.i + 1,
        !.pc = PhaseAfter(oc, d.newChildren, d.i + 1)]

\* lines 607-610: the last old child that no new child took is unmounted and
\* its node removed (unmount 1239-1275, removeNode 26-29)
unmountChild(d) ==
  LET j == CHOOSE m \in DOMAIN d.oldChildren :
             /\ d.oldChildren[m] # 0
             /\ \A m2 \in DOMAIN d.oldChildren : m2 > m => d.oldChildren[m2] = 0
      oc == [d.oldChildren EXCEPT ![j] = 0]
  IN [d EXCEPT
        !.oldChildren = oc,
        !.dom = Without(d.dom, d.oldChildren[j]),
        !.ops = Append(@, Op("unmount", d.oldChildren[j])),
        !.pc = PhaseAfter(oc, d.newChildren, d.i)]

InitKeyed ==
  /\ inst = [i \in Insts |-> NoInst]
  /\ rerenderQueue = <<>>
  /\ rerenderCount = 0
  /\ prevDebounce = "default"
  /\ debounceRendering = "default"
  /\ scheduled = 0
  /\ ctx = "idle"
  /\ pc = "idle"
  /\ queue = <<>>
  /\ qi = 1
  /\ stack = <<>>
  /\ commitQueue = <<>>
  /\ exc = FALSE
  /\ reqs = 0
  /\ throws = 0
  /\ last = Quiet
  /\ pend = [i \in Insts |-> <<>>]
  /\ passNo = 0
  /\ passRenders = [i \in Insts |-> 0]
  /\ passMarks = [i \in Insts |-> 0]
  /\ passSeq = <<>>
  /\ strategyChanged = FALSE
  /\ \E old \in KeyedLists, new \in KeyedLists :
       \E reused \in SUBSET (Range(old) \cap Range(new)) :
         dc = [StartDiffChildren(old, new) EXCEPT !.reused = reused]
  /\ hk = [pc |-> "off"] /\ um = [pc |-> "off"] /\ mc = [pc |-> "off"]

DiffChild ==
  /\ dc.pc = "children"
  /\ dc' = diffChild(dc)
  /\ UNCHANGED <<engineVars, hk, um, mc>>

UnmountChild ==
  /\ dc.pc = "unmount"
  /\ dc' = unmountChild(dc)
  /\ UNCHANGED <<engineVars, hk, um, mc>>

NextKeyed == DiffChild \/ UnmountChild

SpecKeyed == InitKeyed /\ [][NextKeyed]_vars

\* ------------------------------------------- properties of diffChildren
OpsOf(d, kinds) == SelectSeq(d.ops, LAMBDA o : o.op \in kinds)
SameKeys(d) == Range(d.old) = Range(d.newChildren)

Moves == {"appendChild", "insertBefore"}

C20_HostOrder == dc.pc = "done" => dc.dom = dc.newChildren


\* a diff with a removal, an insertion, a move, and a node that changed its
\* index and was left where it was
C20_Witness ==
  /\ dc.pc = "done" /\ dc.dom = dc.newChildren
  /\ OpsOf(dc, {"create"}) # <<>> /\ OpsOf(dc, {"unmount"}) # <<>>
  /\ OpsOf(dc, {"insertBefore"}) # <<>>
  /\ \E k \in Range(dc.old) \cap Range(dc.newChildren) :
       /\ IndexOf(dc.old, k) # IndexOf(dc.newChildren, k)
       /\ \A m \in DOMAIN dc.ops : dc.ops[m].key # k

\* C21 as stated: the diff of a new child that carries the _original of the
\* old child it is diffed against issues no host operation at all.
C21_NoMutationAtAll ==
  [][(DiffChild /\ dc.newChildren[dc.i] \in dc.reused)
       => dc'.ops = dc.ops /\ dc'.dom = dc.dom /\ dc'.elementDiffs = dc.elementDiffs]_vars

\* C21, amended: for a new child that carries the _original of the old child
\* it is diffed against, diff creates no node, calls diffElementNodes for none
\* (no attribute is written, no child diffed) and removes none; diffChildren
\* leaves the node where it is when it is the node expected next (oldDom),
\* and otherwise issues at most one appendChild / insertBefore of that node.
C21_SameStampDiff ==
  [][(DiffChild /\ dc.newChildren[dc.i] \in dc.reused)
       => LET k == dc.newChildren[dc.i]
          IN /\ dc'.elementDiffs = dc.elementDiffs
             /\ k = dc.oldDom => dc'.ops = dc.ops /\ dc'.dom = dc.dom
             /\ k # dc.oldDom =>
                   \/ dc'.ops = dc.ops /\ dc'.dom = dc.dom
                   \/ \E o \in Moves : dc'.ops = Append(dc.ops, Op(o, k))]_vars

\* the old list was applied again with its own element objects, or a list of
\* reused elements was reordered and one of them moved, one left in place
C21_Witness ==
  /\ dc.pc = "done" /\ dc.reused = Range(dc.newChildren) /\ Len(dc.old) = MaxKeys
  /\ dc.elementDiffs = {}
  /\ \E k \in dc.reused : \E m \in DOMAIN dc.ops : dc.ops[m] = Op("insertBefore", k)
  /\ \E k \in dc.reused : \A m \in DOMAIN dc.ops : dc.ops[m].key # k

\* ------------------------------------------------------------ the hooks
\* Two function components under one host parent, diffed in this order by the
\* first render: instance 1 is Counter ({ start: 5 }), instance 2 a component
\* of the same shape whose second hook is useMemo with a dependency list the
\* render chooses (hk.nodeps: its call site passes no list at all).  Both call
\* useState(start) and then useCallback / useMemo, in this order, on every
\* render.  hk holds currentComponent, currentIndex, the __hooks._list of each
\* instance, what the hooks returned to the last render of each instance
\* (ret) and the dependency list that render passed (deps), and
\* the host nodes of Counter: the text shown, the handler in
\* button._listeners.click and the host operations issued.
\*
\* A cell is [component, value, setter, args, memo]: _component (0: not set),
\* _value[0], the setter function _value[1] (0: none, n: the n-th function
\* made for this cell), _args ([def, l]: def is false for undefined) and the
\* memoized _value ([ver, captured]: the ver-th result of the factory, a
\* closure over the state value `captured`; ver 0: none).  The action -1 is
\* the updater function prev => prev + 1, the list element -1 is undefined.
MaxDeps == 2         \* a dependency list holds 0..MaxDeps elements

\* argsChanged, lines 1533-1535
argsChanged(oldArgs, newArgs) ==
  \/ ~oldArgs.def
  \/ \E k \in DOMAIN newArgs.l :
       newArgs.l[k] # (IF k <= Len(oldArgs.l) THEN oldArgs.l[k] ELSE -1)

\* getHookState, lines 1370-1392: the list with a cell at `index` (from 0)
getHookState(list, index) ==
  IF index >= Len(list)
  THEN Append(list, [component |-> 0, value |-> 0, setter |-> 0,
                     args |-> [def |-> FALSE, l |-> <<>>],
                     memo |-> [ver |-> 0, captured |-> 0]])
  ELSE list

\* a useReducer that makes the pair [value, setter] anew in every render
useReducerAnew(cell, c, initialState) ==
  [cell EXCEPT !.component = c, !.setter = @ + 1,
               !.value = IF cell.component = 0 THEN initialState ELSE @]

\* useState / useReducer, lines 1397-1428: the cell after the call; the call
\* returns _value, the pair <<cell.value, cell.setter>>
useReducer(cell, c, initialState) ==
  IF cell.component = 0
  THEN [cell EXCEPT !.component = c, !.value = initialState, !.setter = @ + 1]
  ELSE cell

\* useMemo / useCallback, lines 1434-1453: the cell after the call, which
\* returns cell.memo; the factory is called where memo.ver grows
useMemo(cell, args, captured) ==
  IF argsChanged(cell.args, args)
  THEN [cell EXCEPT !.args = args, !.memo = [ver |-> @.ver + 1, captured |-> captured]]
  ELSE cell

\* a setter that calls setState on the component rendered last
setterOfCurrent(G, H, c, k, action) ==
  LET cell == H.hooks[c][k]
      nextValue == IF action = -1 THEN cell.value + 1 ELSE action
  IN IF cell.value # nextValue
     THEN [G |-> setState(G, H.currentComponent, "empty", FALSE),
           H |-> [H EXCEPT !.hooks[c][k].value = nextValue]]
     ELSE [G |-> G, H |-> H]

\* a setter whose reducer takes every action for the updater prev => prev + 1
setterOfPrev(G, H, c, k, action) ==
  LET cell == H.hooks[c][k]
      nextValue == cell.value + 1
  IN [G |-> setState(G, cell.component, "empty", FALSE),
      H |-> [H EXCEPT !.hooks[c][k].value = nextValue]]

\* lines 1417-1423: the setter of the k-th cell of c, called with `action`
\* (the reducer is invokeOrReturn, 1537-1539)
setter(G, H, c, k, action) ==
  LET cell == H.hooks[c][k]
      nextValue == IF action = -1 THEN cell.value + 1 ELSE action
  IN IF cell.value # nextValue
     THEN [G |-> setState(G, cell.component, "empty", FALSE),
           H |-> [H EXCEPT !.hooks[c][k].value = nextValue]]
     ELSE [G |-> G, H |-> H]

\* a setProperty that takes the old listener off and attaches the new one
setPropertyRebind(host, value) ==
  [host EXCEPT !.listener = value,
               !.ops = @ \o (IF host.listener.ver = 0 THEN <<>>
                             ELSE <<"removeEventListener">>)
                         \o <<"addEventListener">>]

\* setProperty, lines 756-766, for onClick with a function as value
setProperty(host, value) ==
  [host EXCEPT !.listener = value,
               !.ops = IF host.listener.ver = 0 THEN Append(@, "addEventListener") ELSE @]

\* options._render, lines 1302-1313
beforeRender(H, c) == [H EXCEPT !.currentComponent = c, !.currentIndex = 0]

\* doRender (1278-1280) of the function component c with the dependency list
\* args, and for Counter the diff of what it returned (diffElementNodes
\* 1100-1200, diffProps 671-690): the text node and the button's onClick
renderFn(H, c, args) ==
  LET H1 == beforeRender(H, c)
      i == H1.currentIndex
      l1 == getHookState(H1.hooks[c], i)
      cell1 == useReducer(l1[i + 1], c, IF c = 1 THEN 5 ELSE 0)
      l2 == getHookState([l1 EXCEPT ![i + 1] = cell1], i + 1)
      deps == IF c = 1 THEN [def |-> TRUE, l |-> <<cell1.value>>] ELSE args
      cell2 == useMemo(l2[i + 2], deps, cell1.value)
      fresh == H.host.ops = <<>>
      h1 == IF fresh THEN [H.host EXCEPT !.ops = <<"createElement">>] ELSE H.host
      h2 == IF h1.text # cell1.value
            THEN [h1 EXCEPT !.text = cell1.value,
                            !.ops = IF fresh THEN @ ELSE Append(@, "data")]
            ELSE h1
      h3 == IF h2.listener # cell2.memo THEN setProperty(h2, cell2.memo) ELSE h2
  IN [H1 EXCEPT !.currentIndex = i + 2,
                !.hooks[c] = [l2 EXCEPT ![i + 2] = cell2],
                !.ret[c] = <<<<cell1.value, cell1.setter>>, cell2.memo>>,
                !.deps[c] = deps,
                !.host = IF c = 1 THEN h3 ELSE H.host]

\* render(vnode, parentDom) has started: the two components are to be mounted
InitHooks ==
  /\ inst = [i \in Insts |-> NoInst]
  /\ rerenderQueue = <<>>
  /\ rerenderCount = 0
  /\ prevDebounce = "default"
  /\ debounceRendering = "default"
  /\ scheduled = 0
  /\ ctx = "render"
  /\ pc = "diff"
  /\ queue = <<>>
  /\ qi = 1
  /\ stack = <<Frame("diff", 1, NumClasses + 1, "new", TRUE, 0, FALSE),
               Frame("diff", 2, NumClasses + 1, "new", TRUE, 0, FALSE)>>
  /\ commitQueue = <<>>
  /\ exc = FALSE
  /\ reqs = 0
  /\ throws = 0
  /\ last = Quiet
  /\ pend = [i \in Insts |-> <<>>]
  /\ passNo = 0
  /\ passRenders = [i \in Insts |-> 0]
  /\ passMarks = [i \in Insts |-> 0]
  /\ passSeq = <<>>
  /\ strategyChanged = FALSE
  /\ dc = NoDiffChildren
  /\ um = [pc |-> "off"] /\ mc = [pc |-> "off"]
  /\ \E nodeps \in BOOLEAN :
       hk = [pc |-> "on", currentComponent |-> 0, currentIndex |-> 0,
             hooks |-> [c \in {1, 2} |-> <<>>], ret |-> [c \in {1, 2} |-> <<>>],
             deps |-> [c \in {1, 2} |-> [def |-> FALSE, l |-> <<>>]],
             host |-> [text |-> -1, listener |-> [ver |-> 0, captured |-> 0],
                       ops |-> <<>>],
             nodeps |-> nodeps]

\* diff of a function component (872-1019; no lifecycle method is declared):
\* a new instance is constructed, props and state advance, options._render
\* and the component function run, the children are diffed
RenderFn(args) ==
  /\ pc = "diff" /\ ~exc /\ stack # <<>>
  /\ args.def = ~hk.nodeps
  /\ LET c == Top.i
         Ic == IF Top.kind = "new" THEN ChainInst(1, Top.slot) ELSE inst[c]
     IN /\ c = 1 => args.l = <<>>
        /\ SetHeap([Cur EXCEPT !.inst[c] =
                      [Ic EXCEPT !.dirty = FALSE, !.state = Ic.nextState,
                                 !.staged = FALSE]])
        /\ hk' = renderFn(hk, c, args)
        /\ last' = Did(<<"render">>, c, 0)
  /\ stack' = Rest
  /\ pc' = AfterDiff(Rest)
  /\ UNCHANGED <<debounceRendering, ctx, queue, qi, commitQueue, exc, reqs, throws,
                 pend, passNo, passRenders, passSeq, strategyChanged, dc, um, mc>>

\* user code calls the setter of the state cell of c: for Counter the click
\* listener of the button does (the closure `increment` in _listeners.click,
\* called by eventProxy with the value it captured), for the other component
\* any caller with any action
Dispatch(c, action) ==
  /\ pc = "idle"
  /\ reqs < MaxRequests
  /\ hk.hooks[c] # <<>>
  /\ c = 1 => action = hk.host.listener.captured + 1
  /\ c = 2 => action \in -1..1
  /\ LET R == setter(Cur, hk, c, 1, action)
     IN /\ SetHeap(R.G) /\ hk' = R.H
        /\ last' = Did(IF R.H = hk THEN <<"setter">> ELSE <<"setter", "setState">>, c, 0)
  /\ reqs' = reqs + 1
  /\ UNCHANGED <<debounceRendering, flushVars, throws, pend, passNo, passRenders,
                 passSeq, strategyChanged, dc, um, mc>>

NextHooks ==
  \/ \E l \in UNION {[1..n -> {-1, 0, 1}] : n \in 0..MaxDeps}, def \in BOOLEAN :
       RenderFn([def |-> def, l |-> IF def THEN l ELSE <<>>])
  \/ \E c \in {1, 2}, action \in -1..(5 + MaxRequests) : Dispatch(c, action)
  \/ ProcessStart
  \/ ProcessLoop
  \/ ProcessEntry
  \/ Return

SpecHooks == InitHooks /\ [][NextHooks]_vars

\* ------------------------------------------------ properties of the hooks
\* C22: a setter called with an action whose result is identical to the
\* cell's value changes nothing (no cell, no instance, no queue, no flush
\* scheduled); with another result the cell holds the new value, nothing else
\* of the hooks changes, setState ran on the instance that made the cell and
\* on no other, and that instance is dirty and in the render queue (appended
\* unless it was dirty already), whichever component was rendered last.
C22_SetterIdentity ==
  [][\A c \in {1, 2}, action \in -1..(5 + MaxRequests) :
       Dispatch(c, action) =>
         LET cell == hk.hooks[c][1]
             nextValue == IF action = -1 THEN cell.value + 1 ELSE action
         IN IF nextValue = cell.value
            THEN hk' = hk /\ inst' = inst /\ rerenderQueue' = rerenderQueue
                 /\ scheduled' = scheduled
            ELSE /\ hk' = [hk EXCEPT !.hooks[c][1].value = nextValue]
                 /\ cell.component = c
                 /\ inst'[c].staged /\ inst'[c].dirty
                 /\ \A d \in Insts \ {c} : inst'[d] = inst[d]
                 /\ rerenderQueue' = IF inst[c].dirty THEN rerenderQueue
                                     ELSE Append(rerenderQueue, c)
                 /\ Count(rerenderQueue', c) = 1]_vars

\* Counter was clicked twice before the flush: the first click set the cell
\* to 6 and enqueued Counter while the other component was the one rendered
\* last, the second click (the same closure, so the same value 6) did nothing
C22_Witness ==
  /\ last = Did(<<"setter">>, 1, 0) /\ reqs = 2
  /\ hk.currentComponent = 2
  /\ hk.hooks[1][1].value = 6 /\ hk.ret[1][1][1] = 5
  /\ hk.hooks[2][1].value = 0 /\ ~inst[2].dirty
  /\ inst[1].dirty /\ rerenderQueue = <<1>> /\ scheduled = 1

\* C23: every render of an instance starts with the cursor at zero and ends
\* with it at the number of hook calls; the store of the instance grows by one
\* cell per position on the first render and never afterwards, the stores of
\* other instances do not change; the k-th call finds the cell the k-th call
\* of the previous render left (the state cell with its owner, value and
\* setter), and the state hook returns the cell's value with the same setter
\* function as in the previous render.
C23_StableCells ==
  [][pc = "diff" =>
       LET c == Top.i
           old == hk.hooks[c]
           new == hk'.hooks[c]
       IN /\ hk'.currentComponent = c /\ hk'.currentIndex = 2
          /\ Len(new) = 2 /\ Len(old) \in {0, 2}
          /\ \A d \in {1, 2} \ {c} : hk'.hooks[d] = hk.hooks[d]
          /\ hk'.ret[c][1] = <<new[1].value, new[1].setter>>
          /\ new[1].component = c /\ new[1].setter = 1
          /\ old # <<>> =>
               /\ new[1] = old[1]
               /\ hk'.ret[c][1][2] = hk.ret[c][1][2]
               /\ new[2].memo.ver \in {old[2].memo.ver, old[2].memo.ver + 1}]_vars

\* Counter was rendered a second time, after the other component
C23_Witness ==
  /\ last = Did(<<"render">>, 1, 0) /\ hk.host.text = 6
  /\ hk.currentIndex = 2 /\ Len(hk.hooks[1]) = 2 /\ Len(hk.hooks[2]) = 2
  /\ hk.ret[1][1] = <<6, 1>>

\* C24: a render's useMemo calls the factory and stores its result exactly
\* when the cell holds no dependency list or the list passed differs from the
\* stored one in length or in some element; otherwise it returns the value
\* stored, and the cell is unchanged.
C24_RecomputeIffDiffers ==
  [][(pc = "diff" /\ Top.i = 2 /\ hk.hooks[2] # <<>>) =>
       LET old == hk.hooks[2][2]
           new == hk'.hooks[2][2]
           args == hk'.deps[2]
           differs == \/ ~old.args.def
                      \/ Len(args.l) # Len(old.args.l)
                      \/ \E k \in DOMAIN args.l : args.l[k] # old.args.l[k]
       IN IF differs
          THEN new.memo.ver = old.memo.ver + 1 /\ new.args = args
               /\ hk'.ret[2][2] = new.memo
          ELSE new = old /\ hk'.ret[2][2] = old.memo]_vars

\* a render passed a list that is a proper prefix of the list stored, and got
\* the stored value
C24_Witness ==
  /\ last = Did(<<"render">>, 2, 0)
  /\ hk.deps[2].def /\ Len(hk.deps[2].l) < Len(hk.hooks[2][2].args.l)
  /\ hk.ret[2][2] = hk.hooks[2][2].memo /\ hk.hooks[2][2].memo.ver = 1

MaxNodes == 3        \* vnodes of the subtree
MaxCells == 2        \* hook cells of a component

\* an error nobody takes
catchErrorRaise(u) == FALSE
\* options._catchError(e, vnode), lines 38-69: returns (a boundary took the
\* error) or throws it again
catchError(u) == u.caught

\* an unmount that removes every host node
removesAlways(skipRemove, type) == type = "host"
\* lines 1247-1250: dom = vnode._dom is taken, to be removed at line 1274
removes(skipRemove, type) == ~skipRemove /\ type = "host"

\* an unmount that leaves every ref as it is
refClearedNever(kind, type) == FALSE
\* lines 1243-1245: the ref of the vnode is applied with null if it is a
\* function (it has no current) or an object whose current is vnode._dom; the
\* object ref of a component holds the component, and is left alone
refCleared(kind, type) == kind = "fn" \/ (kind = "obj" /\ type = "host")

\* one call of unmount (1239-1275) up to its loop over the children, or the
\* removeNode(dom) at its end
unmount(u) ==
  LET f == Head(u.stack)
      v == f.v
      comp == u.type[v] = "comp"
      cells == IF comp THEN u.cells[v] ELSE <<>>
      thrower == IF \E k \in DOMAIN cells : cells[k] = "throws"
                 THEN CHOOSE k \in DOMAIN cells :
                        cells[k] = "throws" /\ \A m \in 1..(k - 1) : cells[m] # "throws"
                 ELSE 0
      lastRun == IF thrower = 0 THEN Len(cells) ELSE thrower
      cleanups == SelectSeq([k \in 1..lastRun |-> [e |-> "cleanup", v |-> v, k |-> k]],
                            LAMBDA x : cells[x.k] # "none")
      raised1 == thrower # 0 /\ ~catchError(u)
      dom == removes(f.skipRemove, u.type[v])
      cwu == IF comp /\ u.cwu[v] # "none"
             THEN <<[e |-> "componentWillUnmount", v |-> v, k |-> 0]>> ELSE <<>>
      raised2 == comp /\ u.cwu[v] = "throws" /\ ~catchError(u)
      kids == SelectSeq([n \in 1..MaxNodes |-> n], LAMBDA n : u.parent[n] = v)
      frames == [k \in 1..Len(kids) |->
                  [op |-> "unmount", v |-> kids[k], skipRemove |-> f.skipRemove \/ dom]]
      stk == frames
             \o (IF dom THEN <<[op |-> "removeNode", v |-> v, skipRemove |-> TRUE]>>
                 ELSE <<>>)
             \o Tail(u.stack)
      enter == <<[e |-> "unmount", v |-> v, k |-> 0]>>
      ref == IF refCleared(u.ref[v], u.type[v])
             THEN <<[e |-> "ref", v |-> v, k |-> 0]>> ELSE <<>>
      \* the anchor is let go: vnode._dom of a host vnode (1254), base and
      \* _parentDom of a component (1264)
      detach == <<[e |-> "detach", v |-> v, k |-> 0]>>
  IN IF f.op = "removeNode"
     THEN [u EXCEPT !.stack = Tail(u.stack),
                    !.log = Append(@, [e |-> "removeNode", v |-> v, k |-> 0]),
                    !.pc = IF Tail(u.stack) = <<>> THEN "done" ELSE "run"]
     ELSE IF raised1
     THEN [u EXCEPT !.stack = <<>>, !.log = @ \o enter \o cleanups, !.pc = "raised"]
     ELSE IF raised2
     THEN [u EXCEPT !.stack = <<>>,
                    !.log = @ \o enter \o cleanups \o ref \o cwu,
                    !.pc = "raised"]
     ELSE [u EXCEPT !.stack = stk,
                    !.log = @ \o enter \o cleanups \o ref
                              \o (IF comp THEN cwu \o detach ELSE detach),
                    !.parentDom[v] = FALSE,
                    !.pc = IF stk = <<>> THEN "done" ELSE "run"]

\* the subtrees unmount is called for: at most one component holds hook cells
InitUnmount ==
  /\ inst = [i \in Insts |-> NoInst]
  /\ rerenderQueue = <<>>
  /\ rerenderCount = 0
  /\ prevDebounce = "default"
  /\ debounceRendering = "default"
  /\ scheduled = 0
  /\ ctx = "idle"
  /\ pc = "idle"
  /\ queue = <<>>
  /\ qi = 1
  /\ stack = <<>>
  /\ commitQueue = <<>>
  /\ exc = FALSE
  /\ reqs = 0
  /\ throws = 0
  /\ last = Quiet
  /\ pend = [i \in Insts |-> <<>>]
  /\ passNo = 0
  /\ passRenders = [i \in Insts |-> 0]
  /\ passMarks = [i \in Insts |-> 0]
  /\ passSeq = <<>>
  /\ strategyChanged = FALSE
  /\ dc = NoDiffChildren
  /\ hk = [pc |-> "off"] /\ mc = [pc |-> "off"]
  /\ \E parent \in {p \in [1..MaxNodes -> 0..(MaxNodes - 1)] :
                      \A n \in 1..MaxNodes : p[n] < n /\ (p[n] = 0 <=> n = 1)},
        type \in [1..MaxNodes -> {"host", "comp"}], caught \in BOOLEAN :
     \E cwu \in {w \in [1..MaxNodes -> {"none", "ok", "throws"}] :
                   \A n \in 1..MaxNodes : type[n] = "host" => w[n] = "none"},
        hooked \in {n \in 1..MaxNodes : type[n] = "comp"} \cup {0},
        list \in UNION {[1..n -> {"none", "ok", "throws"}] : n \in 0..MaxCells},
        refd \in 0..MaxNodes, kind \in {"fn", "obj"}, pending \in BOOLEAN :
       /\ hooked = 0 <=> list = <<>>
       /\ refd = 0 => kind = "fn"
       /\ LET cells == [n \in 1..MaxNodes |-> IF n = hooked THEN list ELSE <<>>] IN
          um = [pc |-> "run", parent |-> parent, type |-> type, cwu |-> cwu,
                cells |-> cells, caught |-> caught,
                stack |-> <<[op |-> "unmount", v |-> 1, skipRemove |-> FALSE]>>,
                log |-> <<>>,
                ref |-> [n \in 1..MaxNodes |-> IF n = refd THEN kind ELSE "none"],
                refs |-> IF pending
                         THEN <<[e |-> "ref", v |-> 0, k |-> 0],
                                [e |-> "ref", v |-> 0, k |-> 1]>>
                         ELSE <<>>,
                parentDom |-> [n \in 1..MaxNodes |-> type[n] = "comp"],
                flushed |-> {}, rendered |-> {}]

UnmountStep ==
  /\ um.pc = "run"
  /\ um' = unmount(um)
  /\ UNCHANGED <<engineVars, dc, hk, mc>>

\* process, lines 383-385, and renderComponent, lines 283-288, for a component
\* of the subtree that is dirty in the render queue (it was there before the
\* unmount, or setState or forceUpdate enqueued it afterwards: its _vnode
\* stays set) once the unmount has returned or raised
RenderAfterUnmount(n) ==
  /\ um.pc \in {"done", "raised"}
  /\ um.pc = "done" => um.refs = <<>>
  /\ um.type[n] = "comp" /\ n \notin um.flushed
  /\ um' = [um EXCEPT !.flushed = @ \cup {n},
                      !.rendered = IF um.parentDom[n] THEN @ \cup {n} ELSE @]
  /\ UNCHANGED <<engineVars, dc, hk, mc>>

\* refs applied while old children are still to be unmounted
ApplyRefsEarly ==
  /\ um.pc \in {"run", "done"} /\ um.refs # <<>>
  /\ um' = [um EXCEPT !.log = @ \o um.refs, !.refs = <<>>]
  /\ UNCHANGED <<engineVars, dc, hk, mc>>

\* diffChildren, lines 612-617: after the unmounts the refs collected at lines
\* 496-500 are applied, for a matched child whose ref changed the old ref with
\* null and then the new ref with the component or the host node
ApplyRefs ==
  /\ um.pc = "done" /\ um.refs # <<>>
  /\ um' = [um EXCEPT !.log = @ \o um.refs, !.refs = <<>>]
  /\ UNCHANGED <<engineVars, dc, hk, mc>>

SpecUnmount ==
  InitUnmount
  /\ [][UnmountStep \/ ApplyRefs \/ \E n \in 1..MaxNodes : RenderAfterUnmount(n)]_vars

C27_UnmountAlwaysReturns ==
  \A m \in DOMAIN um.log :
    (um.log[m].e = "componentWillUnmount" /\ um.cwu[um.log[m].v] = "throws")
      => um.pc # "raised"

\* C27, amended: when a boundary takes the error of a componentWillUnmount
\* that threw, the unmount is not aborted, and when it is through every vnode
\* of the subtree was unmounted and the root's host node, if it has one,
\* removed; when no boundary takes it, the error leaves unmount at once:
\* nothing is unmounted or removed after the throwing call.
C27_RoutedErrorNotFatal ==
  \A m \in DOMAIN um.log :
    (um.log[m].e = "componentWillUnmount" /\ um.cwu[um.log[m].v] = "throws") =>
      IF um.caught
      THEN /\ um.pc # "raised"
           /\ um.pc = "done" =>
                /\ \A n \in 1..MaxNodes :
                     \E j \in DOMAIN um.log : um.log[j] = [e |-> "unmount", v |-> n, k |-> 0]
                /\ um.type[1] = "host" =>
                     \E j \in DOMAIN um.log :
                       /\ um.log[j] = [e |-> "removeNode", v |-> 1, k |-> 0]
                       /\ \A j2 \in (j + 1)..Len(um.log) : um.log[j2].v = 0
      ELSE um.pc = "raised" /\ um.stack = <<>> /\ m = Len(um.log)

\* the componentWillUnmount of the root component threw, a boundary took the
\* error, and the host child below it was unmounted and removed afterwards
C27_Witness ==
  /\ um.pc = "done" /\ um.caught
  /\ um.type[1] = "comp" /\ um.cwu[1] = "throws" /\ um.type[2] = "host"
  /\ um.parent[2] = 1
  /\ \E m \in DOMAIN um.log :
       /\ um.log[m] = [e |-> "componentWillUnmount", v |-> 1, k |-> 0]
       /\ \E j \in (m + 1)..Len(um.log) : um.log[j] = [e |-> "removeNode", v |-> 2, k |-> 0]

\* C28: removeNode is called only for topmost host nodes of the subtree (host
\* vnodes with no host vnode above them in it), for none of them twice, and
\* when unmount has returned it was called for every one of them.
C28_TopmostRemovedOnce ==
  LET P == [n \in 1..MaxNodes |-> [parent |-> um.parent[n]]]
      topmost == {v \in 1..MaxNodes :
                    /\ um.type[v] = "host"
                    /\ \A a \in Ancestors(P, um.parent[v]) : um.type[a] = "comp"}
      removals(v) == Cardinality({m \in DOMAIN um.log :
                                    um.log[m] = [e |-> "removeNode", v |-> v, k |-> 0]})
  IN /\ \A v \in 1..MaxNodes : removals(v) <= 1
     /\ \A v \in (1..MaxNodes) \ topmost : removals(v) = 0
     /\ um.pc = "done" => \A v \in topmost : removals(v) = 1

\* a component over a host node over a host node was unmounted: one removal
C28_Witness ==
  /\ um.pc = "done" /\ um.type = <<"comp", "host", "host">> /\ um.parent[3] = 2
  /\ SelectSeq(um.log, LAMBDA x : x.e = "removeNode")
       = <<[e |-> "removeNode", v |-> 2, k |-> 0]>>

\* ------------------------------------------------ unmounted is terminal

\* C29: a component instance unmount ran for is never rendered again, though
\* it is in the render queue or is enqueued later: the flush skips it.
C29_UnmountedNeverRendered ==
  \A n \in um.rendered :
    ~\E k \in DOMAIN um.log : um.log[k].e = "unmount" /\ um.log[k].v = n

\* the flush came to a component unmount had run for
C29_Witness ==
  /\ um.pc \in {"done", "raised"}
  /\ \E n \in um.flushed, k \in DOMAIN um.log :
       um.log[k].e = "unmount" /\ um.log[k].v = n

\* the same in the engine, for the instances whose unmount returned (their
\* _parentDom is cleared): they stay unmounted, no step renders them or
\* invokes a render or update lifecycle method of theirs, and process passes
\* over their queue entries
UnmountedStaysUnmounted ==
  [][\A i \in Insts :
       Unmounted(inst, i)
         => /\ Unmounted(inst', i)
            /\ inst'[i].state = inst[i].state
            /\ passRenders'[i] = passRenders[i]
            /\ last'.c = i =>
                 Range(last'.hooks)
                 \cap {"constructor", "gDSFP", "cWM", "cWRP", "sCU", "cWU", "render",
                       "didMount", "didUpdate"} = {}
            /\ \A k \in DOMAIN stack' :
                 stack'[k].op = "diff" => stack'[k].i # i]_vars

\* ------------------------------------ the old child a new child is diffed with
\* The matching alone of diffChildren, for children of any kind.  A child is a
\* vnode [key, type] (key 0: no key given) or null; an old slot is a vnode, a
\* null placeholder (Hole) or undefined (key -2: a new child consumed it).
\* mc holds oldChildren, the new children, the index i of the next new child
\* and pairs, one record per new vnode diffed so far: its index n, the index j
\* of the old child it was diffed with (0: EMPTY_OBJ) and oldChildren as it
\* was before.
MaxChildren == 3     \* children of the old and of the new parent

Hole == [key |-> -1, type |-> "null"]
ChildVNodes == [key : 0..1, type : {"div", "span"}]

\* a match that compares the keys only
oldVNodeByKey(oc, i, child) ==
  LET same(j) == oc[j] \in ChildVNodes /\ oc[j].key = child.key
  IN IF i \in DOMAIN oc /\ (oc[i] = Hole \/ same(i))
     THEN [j |-> IF oc[i] = Hole THEN 0 ELSE i, clear |-> i]
     ELSE IF \E j \in DOMAIN oc : same(j)
          THEN LET j == CHOOSE j \in DOMAIN oc : same(j) /\ \A m \in 1..(j - 1) : ~same(m)
               IN [j |-> j, clear |-> j]
          ELSE [j |-> 0, clear |-> 0]

\* lines 449-479: the old child for the new child at index i (j = 0: none,
\* the child is diffed with EMPTY_OBJ) and the slot set to undefined
oldVNodeFor(oc, i, child) ==
  LET same(j) == oc[j] \in ChildVNodes /\ oc[j].key = child.key /\ oc[j].type = child.type
  IN IF i \in DOMAIN oc /\ oc[i] = Hole THEN [j |-> 0, clear |-> i]
     ELSE IF i \in DOMAIN oc /\ same(i) THEN [j |-> i, clear |-> i]
     ELSE IF \E j \in DOMAIN oc : same(j)
          THEN LET j == CHOOSE j \in DOMAIN oc : same(j) /\ \A m \in 1..(j - 1) : ~same(m)
               IN [j |-> j, clear |-> j]
          ELSE [j |-> 0, clear |-> 0]

InitMatch ==
  /\ inst = [i \in Insts |-> NoInst]
  /\ rerenderQueue = <<>>
  /\ rerenderCount = 0
  /\ prevDebounce = "default"
  /\ debounceRendering = "default"
  /\ scheduled = 0
  /\ ctx = "idle"
  /\ pc = "idle"
  /\ queue = <<>>
  /\ qi = 1
  /\ stack = <<>>
  /\ commitQueue = <<>>
  /\ exc = FALSE
  /\ reqs = 0
  /\ throws = 0
  /\ last = Quiet
  /\ pend = [i \in Insts |-> <<>>]
  /\ passNo = 0
  /\ passRenders = [i \in Insts |-> 0]
  /\ passMarks = [i \in Insts |-> 0]
  /\ passSeq = <<>>
  /\ strategyChanged = FALSE
  /\ dc = NoDiffChildren
  /\ hk = [pc |-> "off"] /\ um = [pc |-> "off"]
  /\ \E old, new \in UNION {[1..n -> ChildVNodes \cup {Hole}] : n \in 0..MaxChildren} :
       mc = [pc |-> IF new = <<>> THEN "done" ELSE "children", old |-> old,
             oldChildren |-> old, newChildren |-> new, i |-> 1, pairs |-> <<>>]

\* lines 441-598: the callback of toChildArray for the new child at index mc.i
\* (null: nothing but i++)
MatchChild ==
  /\ mc.pc = "children"
  /\ LET child == mc.newChildren[mc.i]
         r == oldVNodeFor(mc.oldChildren, mc.i, child)
     IN mc' = [mc EXCEPT
                 !.i = @ + 1,
                 !.pc = IF mc.i = Len(mc.newChildren) THEN "done" ELSE "children",
                 !.oldChildren = IF child = Hole \/ r.clear = 0 THEN @
                                 ELSE [@ EXCEPT ![r.clear] =
                                                  [key |-> -2, type |-> "undefined"]],
                 !.pairs = IF child = Hole THEN @
                           ELSE Append(@, [n |-> mc.i, j |-> r.j,
                                            before |-> mc.oldChildren])]
  /\ UNCHANGED <<engineVars, dc, hk, um>>

SpecMatch == InitMatch /\ [][MatchChild]_vars

\* C30: every old child is diffed with at most one new child; a new child is
\* diffed with an old child only if their keys are equal and their types
\* identical (two children without a key and of one type are equal); a new
\* child for which no such old child is left, or whose old slot of the same
\* index is a null placeholder, is diffed with the empty node.
C30_MatchByKeyAndType ==
  mc.pc \in {"children", "done"} =>
    \A a \in DOMAIN mc.pairs :
      LET p == mc.pairs[a]
          child == mc.newChildren[p.n]
          equal(j) == /\ p.before[j] \in ChildVNodes
                      /\ p.before[j].key = child.key /\ p.before[j].type = child.type
      IN /\ \A b \in DOMAIN mc.pairs : a # b /\ p.j # 0 => mc.pairs[b].j # p.j
         /\ p.j # 0 => /\ mc.old[p.j] \in ChildVNodes
                       /\ mc.old[p.j].key = child.key /\ mc.old[p.j].type = child.type
         /\ (\A j \in DOMAIN p.before : ~equal(j)) => p.j = 0
         /\ (p.n \in DOMAIN p.before /\ p.before[p.n] = Hole) => p.j = 0

\* all the cases in one pass: a child found by the scan at another index, a
\* child mounted fresh at a null placeholder although an equal old child was
\* left, and a child mounted fresh because an earlier child took its equal
C30_Witness ==
  /\ mc.pc = "done"
  /\ \E a, b, c \in DOMAIN mc.pairs :
       /\ mc.pairs[a].j # 0 /\ mc.pairs[a].j # mc.pairs[a].n
       /\ mc.pairs[b].j = 0 /\ mc.pairs[b].n \in DOMAIN mc.old
       /\ mc.pairs[b].before[mc.pairs[b].n] = Hole
       /\ mc.newChildren[mc.pairs[b].n] \in Range(mc.pairs[b].before)
       /\ mc.pairs[c].j = 0 /\ mc.newChildren[mc.pairs[c].n] \in Range(mc.old)
       /\ mc.newChildren[mc.pairs[c].n] \notin Range(mc.pairs[c].before)
       /\ Hole \notin Range(mc.pairs[c].before)

\* ------------------------------------------------- refs and unmount order
\* the events of unmount itself, as against the refs diffChildren applies
UnmountEvents == {"unmount", "cleanup", "detach", "componentWillUnmount", "removeNode"}

C34_StampNeverChanges ==
  \A i \in Insts : ~inst[i].elemNulled

\* C34, amended: the stamp of a node is set when the node is created and is
\* written again only by the catch block of a diff of that node, which sets
\* it to null; a diff that ends without an exception, a bail-out, a commit, an
\* unmount and every request leave it as it is.
C34_StampChangesOnlyInCatch ==
  [][\A i \in Insts :
       /\ (inst'[i].elemNulled /\ ~inst[i].elemNulled)
            => "!" \in Range(last'.hooks) /\ last'.c = i
       /\ (pc = "diff" /\ ~exc /\ stack # <<>> /\ stack[1].op \in {"diff", "mount"}
           /\ stack[1].i = i /\ stack[1].kind = "new" /\ "!" \in Range(last'.hooks))
            => inst'[i].elemNulled]_vars

\* the catch block of a diff has just set the stamp of a new element to null
C34_Witness ==
  /\ "!" \in Range(last.hooks) /\ last.c \in Insts
  /\ inst[last.c].elemNulled /\ inst[last.c].vIsElem /\ ~inst[last.c].stampOk

\* ------------------------------------------ the scheduler across failures

\* C35, in the form a finite run refutes: whenever nothing runs, every
\* mounted instance that is dirty is in the render queue, and a render queue
\* that is not empty has a flush scheduled, so that every request is rendered
\* by some flush, also after a process call that an exception left.
C35_DirtyQueuedAndScheduled ==
  (pc = "idle" /\ ctx = "idle") =>
    /\ \A i \in Insts :
         (Mounted(inst, i) /\ inst[i].attached /\ inst[i].dirty)
           => i \in Range(rerenderQueue)
    /\ rerenderQueue # <<>> => scheduled > 0

\* an exception has left process: a mounted instance is dirty and in no queue,
\* process._rerenderCount is not zero and no flush is scheduled
C35_Witness ==
  /\ pc = "idle" /\ ctx = "idle" /\ last = Did(<<"uncaught">>, 0, 0)
  /\ rerenderCount > 0 /\ scheduled = 0
  /\ \E i \in Insts :
       /\ Mounted(inst, i) /\ inst[i].attached /\ inst[i].dirty
       /\ i \notin Range(rerenderQueue)

\* C36: when the update of a boundary that was marked pending-error finishes
\* without an exception, by a bail-out or after its children are diffed, both
\* _pendingError and _processingException of the boundary are cleared.
C36_MarkersCleared ==
  [][(pc = "diff" /\ ~exc /\ stack # <<>> /\ ~stack[1].fresh
      /\ inst[stack[1].i].pendingError /\ last'.c = stack[1].i
      /\ "!" \notin Range(last'.hooks)
      /\ \/ stack[1].op = "post" /\ stack[1].cpe
         \/ stack[1].op = "diff" /\ "render" \notin Range(last'.hooks))
       => /\ ~inst'[stack[1].i].pendingError
          /\ ~inst'[stack[1].i].processingException]_vars

\* the flush is over, and a boundary whose recovery update bailed out is clean
\* and still marked pending-error and mid-error-handling
C36_Witness ==
  /\ pc = "idle" /\ ctx = "idle" /\ rerenderQueue = <<>>
  /\ \E a \in Insts :
       /\ Mounted(inst, a) /\ ~inst[a].dirty
       /\ inst[a].pendingError /\ inst[a].processingException

\* C37: the step that ends an update of an instance, whether the update
\* rendered, bailed out or was aborted by an exception of render or of a
\* lifecycle method, leaves _force cleared, so that forceUpdate bears on one
\* update only.
C37_ForceCleared ==
  [][(pc = "diff" /\ ~exc /\ stack # <<>> /\ ~stack[1].fresh
      /\ stack[1].op \in {"diff", "post"} /\ last'.c = stack[1].i
      /\ \/ stack[1].op = "post"
         \/ "render" \notin Range(last'.hooks)
         \/ "!" \in Range(last'.hooks))
       => ~inst'[stack[1].i].force]_vars

\* a forced update was aborted by an exception a boundary took, and the
\* instance is still marked forced
C37_Witness ==
  /\ ~exc /\ "!" \in Range(last.hooks) /\ last.c \in Insts
  /\ "cWU" \in Range(last.hooks) /\ "sCU" \notin Range(last.hooks)
  /\ HasSCU(inst[last.c].slot)
  /\ inst[last.c].force /\ inst[last.c].hasVnode
  /\ \E a \in Insts : inst[a].pendingError

\* ------------------------------------------------- state and callbacks

\* C38: the state of an instance changes in no step but an update of that
\* instance that reaches the bail-out or render, which takes all that is
\* staged and makes the staged state the state: setState, forceUpdate, the
\* setState of an error walk and an update that an exception ends after
\* getDerivedStateFromProps write to the staged copy only, so the state
\* before the update is what componentDidUpdate is given.
C38_StateNotMutated ==
  [][\A i \in Insts :
       inst'[i].state # inst[i].state
         => /\ pc = "diff" /\ ~exc /\ stack # <<>> /\ stack[1].i = i
            /\ stack[1].op \in {"diff", "mount"} /\ last'.c = i
            /\ pend'[i] = <<>>
            /\ inst'[i].state =
                 IF stack[1].op = "mount" THEN inst[i].nextState
                 ELSE Taken(inst[i], NewProps(inst, i, stack[1].kind)).nextState]_vars

\* setState has staged a new state for an instance whose componentDidUpdate
\* of the running update is still to be called
C38_Witness ==
  \E i \in Insts :
    /\ Mounted(inst, i) /\ "didUpdate" \in Range(inst[i].cbs)
    /\ inst[i].staged /\ inst[i].nextState # inst[i].state
    /\ pend[i] # <<>>

\* the number of callbacks of setState and forceUpdate in a list of callbacks
CallbackCount(s) == Cardinality({j \in 1..Len(s) : s[j] = "cb"})

C40_IncrementTwice ==
  [][/\ hk'.hooks[1] # <<>> =>
          /\ hk'.hooks[1][1].value - hk'.host.listener.captured \in {0, 1}
          /\ Count(rerenderQueue', 1) <= 1
     /\ (reqs' = reqs + 1 /\ last'.c = 1 /\ last'.hooks[1] = "setter"
           /\ hk.hooks[1][1].value = hk.host.listener.captured + 1)
          => UNCHANGED <<hk, inst, schedVars, flushVars>>
     /\ (reqs' = reqs + 1 /\ last'.c = 1 /\ last'.hooks[1] = "setter"
           /\ hk.hooks[1][1].value = hk.host.listener.captured)
          => /\ hk'.hooks[1][1].value = hk.host.listener.captured + 1
             /\ inst'[1].dirty /\ 1 \in Range(rerenderQueue') /\ scheduled' > 0
             /\ hk'.host = hk.host
     /\ (last' = Did(<<"render">>, 1, 0) /\ hk.hooks[1] # <<>>)
          => /\ hk.hooks[1][1].value = hk.host.listener.captured + 1
             /\ hk'.host.text = hk.host.text + 1
             /\ hk'.host.text = hk.host.listener.captured + 1
             /\ hk'.host.listener.captured = hk'.host.text
             /\ ~inst'[1].dirty /\ 1 \notin Range(rerenderQueue')]_vars

\* the listener that captured 6 was called a second time before the flush:
\* the call found 7 in the cell and did not call setState; Counter is queued
\* once and still shows 6
C40_Witness ==
  /\ last = Did(<<"setter">>, 1, 0)
  /\ hk.host.listener.captured = 6 /\ hk.host.text = 6
  /\ hk.hooks[1][1].value = 7
  /\ inst[1].dirty /\ Count(rerenderQueue, 1) = 1 /\ scheduled > 0
====
